---- MODULE Spec2Model ----
(***************************************************************************)
(* The document-intake pipeline of process_intake.py (DocumentProcessor):  *)
(* the phase controller (run_all_phases, run_phase, resume_from_phase),    *)
(* the two worker pools (extraction router, summary worker), the synthesis *)
(* stage, and the part of the case folder they read and write.             *)
(*                                                                         *)
(* A file is a record [stem, ext, gen]: stem and ext are its name (stems    *)
(* are sequences of one-character strings, extensions are strings without  *)
(* the leading dot), gen tells apart the contents of files that were given *)
(* the same name.  A document folder documents/<stem> is an entry of       *)
(* folders.                                                                *)
(*                                                                         *)
(* Spec is the pipeline with its environment (files dropped or deleted by  *)
(* others, a missing intake path, Ctrl-C).  SpecCentral drives             *)
(* _get_centralized_path alone, one insertion after the other.             *)
(*                                                                         *)
(* The other specifications drive one operation each, on inputs drawn in   *)
(* their initial states: SpecVerification the verification hook,           *)
(* SpecPages the page reconstruction of extract_text_with_mistral,         *)
(* SpecCleaning the code-fence cleaning, SpecDetect _detect_file_type,     *)
(* SpecSummarySync the retry loop of _generate_summary_sync, SpecCouncil   *)
(* main() of orchestrator.py, SpecExecutor main() of executor.py,          *)
(* SpecSanitize _sanitize_filename, SpecSynthesisRun the synthesis stage   *)
(* with its verification hook under each entry point, SpecJobs the job     *)
(* directories of executor.py (init_job, the detached workers, the status  *)
(* query; SpecJobsFair is SpecJobs with the processes scheduled) and       *)
(* SpecRelay main() of strategy_relay.py for one claim.                    *)
(***************************************************************************)
EXTENDS Integers, Sequences, FiniteSets, TLC

\* ------------------------------------------------------------------ bounds

\* Most files the intake folder holds when the first run starts.
MaxFiles == 2
\* Most runs of main() in one behaviour.
MaxRuns == 2
\* Most intake files deleted by someone else while an extraction pool runs.
MaxDeletes == 1
\* Most CPUs cpu_count() reports.
MaxCpu == 2
\* Most exhibits the exhibit extractor returns for one run.
MaxExhibits == 1
\* Most files of the intake folder that were dropped there between runs.
MaxDrops == 1
\* Most successive insertions into the centralized folder (sequential driver).
MaxInserts == 3

\* Files in each place the verification hook looks for sources.
MaxPlaceFiles == 1

\* Pages of one OCR response.
MaxPages == 3

\* Code fences nested around one summary text.
MaxFenceDepth == 2

\* Times the cleaning is applied to one text.
MaxCleanings == 2

\* Characters of the short file names handed to _sanitize_filename.
MaxNameChars == 3

\* Tickets of one implementation plan, their largest id, runs of the executor.
MaxTickets == 2

MaxTicketId == 1

MaxExecutorRuns == 2

\* Job directories under the runs folder, status queries made meanwhile.
MaxJobs == 2

MaxQueries == 1

\* Runs of the strategy relay over one claim.
MaxRelayRuns == 2

\* ------------------------------------------------------- program constants

\* min(10, cpu_count(), len(all_files)) and num_workers: int = 10
PoolCap == 10

\* ------------------------------------------------------------- file names

File(stem, ext) == [stem |-> stem, ext |-> ext, gen |-> 0]

NoFile == File(<<>>, "")

\* A test that finds no file under any name.
SameNameNever(f, g) == FALSE

\* Two files have the same file name (Path.name).
SameName(f, g) == f.stem = g.stem /\ f.ext = g.ext

\* The files the intake folder can hold when the first run starts: two share
\* their stem, the stem of the third differs from theirs in letter case.
IntakeUniverse ==
    { File(<<"a">>, "pdf"), File(<<"a">>, "csv"), File(<<"A">>, "txt") }

\* SUPPORTED_FILE_TYPES: category -> extensions
SUPPORTED_FILE_TYPES ==
    [ pdf   |-> {"pdf"},
      docx  |-> {"docx"},
      pptx  |-> {"pptx"},
      csv   |-> {"csv"},
      xlsx  |-> {"xlsx", "xls"},
      txt   |-> {"txt"},
      md    |-> {"md", "markdown"},
      image |-> {"jpg", "jpeg", "png", "gif", "bmp", "tiff", "tif", "avif"},
      audio |-> {"mp3", "wav", "m4a", "ogg"} ]

\* _detect_file_type: the category listing the extension, else 'unsupported'.
\* (The extensions of the model are lower case already, so .lower() is the
\* identity on them.)
DetectFileType(f) ==
    IF \E t \in DOMAIN SUPPORTED_FILE_TYPES : f.ext \in SUPPORTED_FILE_TYPES[t]
    THEN CHOOSE t \in DOMAIN SUPPORTED_FILE_TYPES : f.ext \in SUPPORTED_FILE_TYPES[t]
    ELSE "unsupported"

\* The handlers table of _extract_single_document_router.
HandlerOf(type) ==
    CASE type \in {"pdf", "docx", "pptx"} -> "_extract_mistral_ocr"
      [] type = "image"                   -> "_extract_image_hybrid"
      [] type = "audio"                   -> "_extract_audio"
      [] type = "csv"                     -> "_extract_csv"
      [] type = "xlsx"                    -> "_extract_excel"
      [] type \in {"txt", "md"}           -> "_extract_plaintext"
      [] OTHER                            -> "_extract_unsupported"

\* Every handler that extracts writes <doc_folder>/full_text_extraction.txt.
WritesFullTextAlways(handler) == handler # "_extract_unsupported"

\* Every handler but _extract_plaintext (and _extract_unsupported) writes
\* <doc_folder>/full_text_extraction.txt.
WritesFullText(handler) ==
    handler \notin {"_extract_plaintext", "_extract_unsupported"}

\* The handlers that read MISTRAL_API_KEY (extract_text_with_mistral, the
\* audio transcription) and raise when it is not set.
NeedsApiKey(handler) ==
    handler \in {"_extract_mistral_ocr", "_extract_image_hybrid", "_extract_audio"}

\* original_file.suffix.lower() in ['.txt', '.md', '.markdown']
IsPlaintextSuffix(f) == f.ext \in {"txt", "md", "markdown"}

\* _discover_intake_files: the files of the intake folder matching *<ext> for
\* an extension of SUPPORTED_FILE_TYPES.
DiscoverIntakeFiles(dir) ==
    { f \in dir : DetectFileType(f) # "unsupported" }

\* ------------------------------------------------- centralized text folder

LowerOf(c) ==
    CASE c = "A" -> "a"
      [] c = "B" -> "b"
      [] c = "C" -> "c"
      [] OTHER   -> c

SafeChars == {"a", "b", "c", "0", "1", "2", "_", "-"}

\* Runs of underscores left as they are.
KeepUnderscores(s) == s

RECURSIVE CollapseUnderscores(_)
\* re.sub(r'_+', '_', name): every run of underscores becomes one.  (The two
\* halves are collapsed and joined, a run across the joint counted once, so
\* that names of hundreds of characters are within reach.)
CollapseUnderscores(s) ==
    IF Len(s) < 2 THEN s
    ELSE LET half  == Len(s) \div 2
             left  == CollapseUnderscores(SubSeq(s, 1, half))
             right == CollapseUnderscores(SubSeq(s, half + 1, Len(s)))
         IN  IF left[Len(left)] = "_" /\ right[1] = "_"
             THEN left \o Tail(right) ELSE left \o right

\* name[:200]
MaxNameLen == 200

\* _sanitize_filename applied to "<stem>.<ext>": rsplit('.', 1)[0] is the
\* stem; lower-cased, every character outside [a-z0-9_-] replaced by '_',
\* runs of '_' collapsed, cut to 200 characters.
SanitizeFilename(f) ==
    LET lowered  == [i \in 1..Len(f.stem) |-> LowerOf(f.stem[i])]
        replaced == [i \in 1..Len(lowered) |->
                        IF lowered[i] \in SafeChars THEN lowered[i] ELSE "_"]
        squeezed == CollapseUnderscores(replaced)
    IN  SubSeq(squeezed, 1, IF Len(squeezed) < MaxNameLen THEN Len(squeezed) ELSE MaxNameLen)

DigitChars == <<"0", "1", "2", "3", "4", "5", "6", "7", "8", "9">>

RECURSIVE Decimal(_)
\* The decimal digits of a natural number, as f"{counter}" prints them.
Decimal(n) ==
    IF n < 10 THEN <<DigitChars[n + 1]>>
    ELSE Decimal(n \div 10) \o <<DigitChars[(n % 10) + 1]>>

\* The file name (without the suffix .txt) _get_centralized_path tries for a
\* counter: f"{base_name}{suffix}" for 0, else f"{base_name}_{counter}{suffix}".
CentralName(base, n) == IF n = 0 THEN base ELSE base \o <<"_">> \o Decimal(n)

NoPath == <<"<none>">>

\* A path function without the collision counter: always <base>.txt.
GetCentralizedPathNoCounter(dir, f) == CentralName(SanitizeFilename(f), 0)

\* A path function whose counter starts at 1: <base>_1.txt comes first.
GetCentralizedPathSkipFirst(dir, f) ==
    LET base == SanitizeFilename(f)
        free == { n \in 1..(Cardinality(DOMAIN dir) + 1) : CentralName(base, n) \notin DOMAIN dir }
    IN  CentralName(base, CHOOSE n \in free : \A m \in free : n <= m)

\* A path function that takes as counter the number of files already
\* inserted for the base name, without looking whether the name is free.
GetCentralizedPathByCount(dir, f) ==
    LET base == SanitizeFilename(f)
    IN  CentralName(base, Cardinality({ n \in DOMAIN dir : SanitizeFilename(dir[n]) = base }))

\* _get_centralized_path: the first of <base>.txt, <base>_1.txt, ... that
\* does not exist in the centralized folder dir (a function name -> source).
GetCentralizedPath(dir, f) ==
    LET base == SanitizeFilename(f)
        free == { n \in 0..Cardinality(DOMAIN dir) : CentralName(base, n) \notin DOMAIN dir }
    IN  CentralName(base, CHOOSE n \in free : \A m \in free : n <= m)

\* ------------------------------------------------------ summary documents

\* The text of a document_summary.json, as a sequence of tokens: "J" is the
\* text of one JSON object, "FENCE" a code fence (three backquotes), "json" the word json, "ws"
\* white space, "x" any other text.
NoSummary == <<"<absent>">>

StartsWith(s, p) == Len(s) >= Len(p) /\ SubSeq(s, 1, Len(p)) = p

EndsWith(s, p) == Len(s) >= Len(p) /\ SubSeq(s, Len(s) - Len(p) + 1, Len(s)) = p

DropFirst(s, k) == SubSeq(s, k + 1, Len(s))

DropLast(s, k) == SubSeq(s, 1, Len(s) - k)

RECURSIVE LStrip(_)
LStrip(s) == IF s # <<>> /\ s[1] = "ws" THEN LStrip(Tail(s)) ELSE s

RECURSIVE RStrip(_)
RStrip(s) == IF s # <<>> /\ s[Len(s)] = "ws" THEN RStrip(DropLast(s, 1)) ELSE s

\* str.strip()
Strip(s) == RStrip(LStrip(s))

\* A cleaning that leaves a trailing fence where it is.
CleanFencesLeadingOnly(content) ==
    LET c0 == Strip(content)
        c1 == IF StartsWith(c0, <<"FENCE", "json">>) THEN DropFirst(c0, 2) ELSE c0
        c2 == IF StartsWith(c1, <<"FENCE">>) THEN DropFirst(c1, 1) ELSE c1
    IN  Strip(c2)

\* The code-fence cleaning of phase_3_synthesize_case_summary and
\* _load_summarized_documents: strip; drop a leading fence followed by json;
\* drop a leading fence; drop a trailing fence; strip.
CleanFences(content) ==
    LET c0 == Strip(content)
        c1 == IF StartsWith(c0, <<"FENCE", "json">>) THEN DropFirst(c0, 2) ELSE c0
        c2 == IF StartsWith(c1, <<"FENCE">>) THEN DropFirst(c1, 1) ELSE c1
        c3 == IF EndsWith(c2, <<"FENCE">>) THEN DropLast(c2, 1) ELSE c2
    IN  Strip(c3)

\* json.loads succeeds: one JSON value, white space around it allowed.
JsonLoads(text) == Strip(text) = <<"J">>

\* What the summary LLM call can leave in document_summary.json when it
\* writes the file.
SummaryTexts ==
    { <<"J">>, <<"FENCE", "json", "ws", "J", "ws", "FENCE">>, <<"x">> }

\* The keys of the dict _generate_summary_worker_static returns on failure.
SummaryFailureKeys == {"file_path", "doc_folder", "success", "error"}

\* ------------------------------------------------------ records in memory

\* A document dict passed between phases: its doc_folder (a stem), its source
\* file and the key that holds the source ('file_path' or 'pdf_path').
Doc(folder, file, key) ==
    [kind |-> "doc", folder |-> folder, file |-> file, key |-> key, label |-> 0]

\* An exhibit dict returned by the exhibit extractor for a parent document:
\* phase_1_5_extract_exhibits reads its keys 'folder', 'original',
\* 'exhibit_label' and 'doc_id'; it has no 'doc_folder'.
Exhibit(parent, i) ==
    [kind |-> "exhibit", folder |-> parent.folder, file |-> parent.file,
     key |-> "original", label |-> i]

NewFolder == [files |-> {}, fte |-> NoFile, summary |-> NoSummary]

Modes ==
    { "default", "all_phases", "phase_extract", "phase_summarize",
      "phase_synthesize", "resume_summarize", "resume_synthesize" }

\* run_all_phases is the only controller method with a try/except.
FullRunModes == {"default", "all_phases"}

Min2(a, b) == IF a <= b THEN a ELSE b

\* ------------------------------------------------------------------- state

\* Value of the function drivers' variables while no operation is driven.
NoCall == [op |-> "none"]

VARIABLES
    cpuCount,          \* cpu_count()
    exhibitSummaries,  \* exhibit_config: enabled and create_summaries, extractor importable
    apiKey,            \* MISTRAL_API_KEY is set in the environment
    intake,            \* the files of the intake folder
    folders,           \* documents/<stem>/ : stem -> [files, fte, summary]
    central,           \* documents/full_text_extractions/ : name -> source file
    caseSummary,       \* 0: no Case_Summary_and_Timeline.md; n: written by run n
    runs,              \* runs of main() started so far
    deletes,           \* intake files deleted by someone else so far
    mode,              \* the controller entry point of the current run
    pc,                \* where the controller is
    returned,          \* the phase methods that returned normally in this run
    raised,            \* the exception that escaped the controller, or "none"
    runLog,            \* messages this run logged
    failLog,           \* items this run logged as failed, with their error text
    exitCode,          \* sys.exit code of the current run, -1 while it runs
    poolProcs,         \* processes of the current Pool
    extTasks,          \* extraction pool: file -> task
    extracted,         \* extracted_docs
    sumTasks,          \* summary pool: document -> task
    summarized,        \* summarized_docs
    everExtracted,     \* history: the records phase_1_extract_all has returned, all runs
    everSummarized,    \* history: the records phase_2_summarize_all has returned, all runs
    inserted,          \* sequential driver: the insertions [src, path] made so far
    given,             \* function drivers: the inputs of the operation driven
    result             \* function drivers: what the operation has done so far

env == <<cpuCount, exhibitSummaries, apiKey>>

disk == <<intake, folders, central, caseSummary>>

ctl == <<mode, pc, returned, raised, runLog, failLog, exitCode>>

pools == <<poolProcs, extTasks, extracted, sumTasks, summarized>>

hist == <<everExtracted, everSummarized>>

driver == <<inserted, given, result>>

vars == <<env, disk, runs, deletes, ctl, pools, hist, driver>>

Init ==
    /\ cpuCount \in 1..MaxCpu
    /\ exhibitSummaries \in BOOLEAN
    /\ apiKey \in BOOLEAN
    /\ intake \in { s \in SUBSET IntakeUniverse : Cardinality(s) <= MaxFiles }
    /\ folders = <<>>
    /\ central = <<>>
    /\ caseSummary = 0
    /\ runs = 0
    /\ deletes = 0
    /\ inserted = <<>>
    /\ given = NoCall
    /\ result = NoCall
    /\ mode = "default"
    /\ pc = "idle"
    /\ returned = {}
    /\ raised = "none"
    /\ runLog = {}
    /\ failLog = {}
    /\ exitCode = -1
    /\ poolProcs = 0
    /\ extTasks = <<>>
    /\ extracted = {}
    /\ sumTasks = <<>>
    /\ summarized = {}
    /\ everExtracted = {}
    /\ everSummarized = {}

\* --------------------------------------------------------- controller ends

\* The controller method returns normally and main() calls sys.exit(0).
Return(msgs) ==
    /\ pc' = "done"
    /\ exitCode' = 0
    /\ raised' = "none"
    /\ runLog' = runLog \cup msgs

\* An exception leaves the controller: run_all_phases logs "Processing
\* failed" and re-raises; main() prints the fatal error and calls sys.exit(1).
Raise(exc, msgs) ==
    /\ pc' = "done"
    /\ exitCode' = 1
    /\ raised' = exc
    /\ runLog' = runLog \cup msgs
                 \cup (IF mode \in FullRunModes THEN {"Processing failed"} ELSE {})

\* main(): a run starts in the mode the command line selects.
StartRun(m) ==
    /\ pc \in {"idle", "done"}
    /\ runs < MaxRuns
    /\ runs' = runs + 1
    /\ mode' = m
    /\ pc' = CASE m \in {"default", "all_phases", "phase_extract"} -> "phase1"
               [] m \in {"phase_summarize", "resume_summarize"}    -> "load_extracted"
               [] OTHER                                            -> "load_summarized"
    /\ runLog' = CASE m \in {"default", "all_phases", "phase_extract"} -> {"PHASE 1"}
                   [] m \in {"phase_summarize", "resume_summarize"}    -> {"PHASE 2"}
                   [] OTHER                                            -> {"PHASE 3"}
    /\ returned' = {}
    /\ raised' = "none"
    /\ failLog' = {}
    /\ exitCode' = -1
    /\ poolProcs' = 0
    /\ extTasks' = <<>>
    /\ extracted' = {}
    /\ sumTasks' = <<>>
    /\ summarized' = {}
    /\ UNCHANGED <<driver, env, disk, deletes, hist>>

\* ----------------------------------------------------- phase 1: extraction

\* A task of the extraction pool: src is the file at moved_file, the one the
\* handler reads; cpath the path _get_centralized_path returned to it.
QueuedTask == [st |-> "queued", ok |-> FALSE, src |-> NoFile, cpath |-> NoPath]

\* The tasks a pool worker is executing.
Running(tasks) == { t \in DOMAIN tasks : tasks[t].st \notin {"queued", "returned"} }

\* A join that returns as soon as one task has returned.
PoolJoinedEarly(tasks) == \E t \in DOMAIN tasks : tasks[t].st = "returned"

\* pool.map returns: every task of the batch has returned.
PoolJoined(tasks) == \A t \in DOMAIN tasks : tasks[t].st = "returned"

\* max_workers = min(10, cpu_count(), len(all_files))
ExtractPoolSize(cpus, n) == Min2(PoolCap, Min2(cpus, n))

\* Pool(processes=min(num_workers, cpu_count())) with num_workers = 10
SummaryPoolSize(cpus, n) == Min2(PoolCap, cpus)

\* phase_1_extract_all up to pool.map: discover the intake files; none gives
\* the empty result, else the files go to a pool.
Phase1Begin ==
    /\ pc = "phase1"
    /\ LET all_files == DiscoverIntakeFiles(intake)
       IN  IF all_files = {}
           THEN /\ runLog' = runLog \cup {"No supported files found in Intake folder"}
                /\ extracted' = {}
                /\ returned' = returned \cup {"phase_1_extract_all"}
                /\ pc' = "ctl1"
                /\ UNCHANGED <<poolProcs, extTasks>>
           ELSE /\ poolProcs' = ExtractPoolSize(cpuCount, Cardinality(all_files))
                /\ extTasks' = [f \in all_files |-> QueuedTask]
                /\ pc' = "pool1"
                /\ UNCHANGED <<runLog, extracted, returned>>
    /\ UNCHANGED <<driver, env, disk, runs, deletes, mode, raised, failLog, exitCode,
                   sumTasks, summarized, hist>>

\* Someone else deletes an intake file while the pool has not reached it.
ExternalDelete(f) ==
    /\ pc = "pool1"
    /\ deletes < MaxDeletes
    /\ f \in intake
    /\ f \in DOMAIN extTasks /\ extTasks[f].st = "queued"
    /\ intake' = intake \ {f}
    /\ deletes' = deletes + 1
    /\ UNCHANGED <<driver, env, folders, central, caseSummary, runs, ctl, pools, hist>>

\* _extract_single_document_router up to the handler call: create
\* documents/<stem>, move the file into it unless a file of that name is
\* there already (then the intake file stays where it is and moved_file is
\* the file found there).  A source that is gone makes rename raise; the
\* router returns a failure.
ExtractRoute(f) ==
    /\ pc = "pool1"
    /\ f \in DOMAIN extTasks /\ extTasks[f].st = "queued"
    /\ Cardinality(Running(extTasks)) < poolProcs
    /\ LET old    == IF f.stem \in DOMAIN folders THEN folders[f.stem] ELSE NewFolder
           there  == { g \in old.files : SameName(g, f) }
           exists == there # {}
           gone   == ~exists /\ f \notin intake
           new    == IF exists \/ gone THEN old
                     ELSE [old EXCEPT !.files = @ \cup {f}]
           moved  == IF exists THEN CHOOSE g \in there : TRUE ELSE f
       IN  /\ folders' = [s \in DOMAIN folders \cup {f.stem} |->
                             IF s = f.stem THEN new ELSE folders[s]]
           /\ intake' = IF exists THEN intake ELSE intake \ {f}
           /\ extTasks' = [extTasks EXCEPT ![f] =
                             IF gone THEN [@ EXCEPT !.st = "returned", !.ok = FALSE]
                             ELSE [@ EXCEPT !.st = "routed", !.src = moved]]
    /\ UNCHANGED <<driver, env, central, caseSummary, runs, deletes, ctl,
                   poolProcs, extracted, sumTasks, summarized, hist>>

\* The handler the router picked: the external call (OCR, transcription,
\* parsing, reading) succeeds or raises.  On success the handler writes
\* full_text_extraction.txt (not for plaintext) and asks for its centralized
\* path; a raise, or an unsupported type, makes the router return a failure.
ExtractHandle(f, success) ==
    /\ pc = "pool1"
    /\ f \in DOMAIN extTasks /\ extTasks[f].st = "routed"
    /\ LET handler == HandlerOf(DetectFileType(f))
       IN  /\ (NeedsApiKey(handler) /\ ~apiKey) => ~success
           /\ IF success /\ handler # "_extract_unsupported"
              THEN /\ folders' = IF WritesFullText(handler)
                                 THEN [folders EXCEPT ![f.stem].fte = extTasks[f].src]
                                 ELSE folders
                   /\ extTasks' = [extTasks EXCEPT ![f] =
                                     [@ EXCEPT !.st = "pathed",
                                               !.cpath = GetCentralizedPath(central, f)]]
              ELSE /\ extTasks' = [extTasks EXCEPT ![f] =
                                     [@ EXCEPT !.st = "returned", !.ok = FALSE]]
                   /\ UNCHANGED folders
    /\ UNCHANGED <<driver, env, intake, central, caseSummary, runs, deletes, ctl,
                   poolProcs, extracted, sumTasks, summarized, hist>>

\* The handler writes the centralized copy at the path it was given and
\* returns its success record.
ExtractWrite(f) ==
    /\ pc = "pool1"
    /\ f \in DOMAIN extTasks /\ extTasks[f].st = "pathed"
    /\ LET path == extTasks[f].cpath
       IN  central' = [n \in DOMAIN central \cup {path} |->
                          IF n = path THEN extTasks[f].src ELSE central[n]]
    /\ extTasks' = [extTasks EXCEPT ![f] = [@ EXCEPT !.st = "returned", !.ok = TRUE]]
    /\ UNCHANGED <<driver, env, intake, folders, caseSummary, runs, deletes, ctl,
                   poolProcs, extracted, sumTasks, summarized, hist>>

\* A filter that keeps every returned record.
SuccessfulUnfiltered(tasks) == { t \in DOMAIN tasks : tasks[t].st = "returned" }

\* The records pool.map returned with success set.
Successful(tasks) == { t \in DOMAIN tasks : tasks[t].st = "returned" /\ tasks[t].ok }

\* The records pool.map returned with success unset.
Failed(tasks) == { t \in DOMAIN tasks : tasks[t].st = "returned" /\ ~tasks[t].ok }

\* phase_1_extract_all after pool.map: split the results, log each failure
\* by file name, return the successful records.
Phase1Join ==
    /\ pc = "pool1"
    /\ PoolJoined(extTasks)
    /\ extracted' = { Doc(f.stem, extTasks[f].src, "file_path") : f \in Successful(extTasks) }
    /\ failLog' = failLog \cup Failed(extTasks)
    /\ runLog' = runLog \cup (IF Failed(extTasks) # {} THEN {"files failed extraction"} ELSE {})
    /\ returned' = returned \cup {"phase_1_extract_all"}
    /\ pc' = "ctl1"
    /\ everExtracted' = everExtracted \cup extracted'
    /\ UNCHANGED <<driver, env, disk, runs, deletes, mode, raised, exitCode,
                   poolProcs, extTasks, sumTasks, summarized, everSummarized>>

\* The exhibits the extractor can return for the extracted documents: only
\* PDFs whose full_text_extraction.txt exists are looked at.
ExhibitChoices(docs) ==
    LET parents == { d \in docs : d.file.ext = "pdf" /\ folders[d.folder].fte # NoFile }
        all     == { Exhibit(d, i) : d \in parents, i \in 1..MaxExhibits }
    IN  { e \in SUBSET all : Cardinality(e) <= MaxExhibits }

\* The controller after phase_1_extract_all returned.  run_phase('extract')
\* logs completion and ends; run_all_phases stops on an empty result, else
\* (phase 1.5) appends the exhibits when configured and goes on to phase 2.
ControllerAfterExtract ==
    /\ pc = "ctl1"
    /\ LET done1 == IF extracted # {} THEN {"Phase 1 complete"} ELSE {}
       IN  CASE mode = "phase_extract" ->
                   /\ Return(done1 \cup {"All phases complete"})
                   /\ UNCHANGED extracted
             [] mode \in FullRunModes /\ extracted = {} ->
                   /\ Return(done1 \cup {"Phase 1 failed - no documents extracted"})
                   /\ UNCHANGED extracted
             [] mode \in FullRunModes /\ extracted # {} ->
                   /\ \E exhibits \in (IF exhibitSummaries THEN ExhibitChoices(extracted) ELSE {{}}) :
                          extracted' = extracted \cup exhibits
                   /\ runLog' = runLog \cup done1 \cup {"PHASE 2"}
                   /\ pc' = "phase2"
                   /\ UNCHANGED <<raised, exitCode>>
    /\ UNCHANGED <<driver, env, disk, runs, deletes, mode, returned, failLog,
                   poolProcs, extTasks, sumTasks, summarized, hist>>

\* -------------------------------------------------- phase 2: summarization

QueuedSummary == [st |-> "queued", ok |-> FALSE, calls |-> 0, cause |-> "none"]

\* The ways the summary LLM call (subprocess.run, timeout=120) can end.
CallOutcomes == {"ok", "error", "rate_limit", "timeout"}

\* _load_extracted_documents: the document folders holding a
\* full_text_extraction.txt and a *.pdf file.
LoadExtractedDocuments ==
    LET pdfs(s) == { f \in folders[s].files : f.ext = "pdf" }
    IN  { Doc(s, CHOOSE f \in pdfs(s) : TRUE, "pdf_path") :
            s \in { t \in DOMAIN folders : folders[t].fte # NoFile /\ pdfs(t) # {} } }

\* run_phase('summarize') and resume_from_phase('summarize') load the
\* extracted documents from disk.
LoadExtracted ==
    /\ pc = "load_extracted"
    /\ extracted' = LoadExtractedDocuments
    /\ runLog' = runLog \cup {"Loaded extracted documents from Phase 1"}
    /\ pc' = "phase2"
    /\ UNCHANGED <<driver, env, disk, runs, deletes, mode, returned, raised, failLog, exitCode,
                   poolProcs, extTasks, sumTasks, summarized, hist>>

\* phase_2_summarize_all up to pool.map: nothing to summarize gives the
\* empty result, else the documents go to a pool.
Phase2Begin ==
    /\ pc = "phase2"
    /\ IF extracted = {}
       THEN /\ runLog' = runLog \cup {"No extracted documents to summarize"}
            /\ summarized' = {}
            /\ returned' = returned \cup {"phase_2_summarize_all"}
            /\ pc' = "ctl2"
            /\ UNCHANGED <<poolProcs, sumTasks>>
       ELSE /\ poolProcs' = SummaryPoolSize(cpuCount, Cardinality(extracted))
            /\ sumTasks' = [d \in extracted |-> QueuedSummary]
            /\ pc' = "pool2"
            /\ UNCHANGED <<runLog, summarized, returned>>
    /\ UNCHANGED <<driver, env, disk, runs, deletes, mode, raised, failLog, exitCode,
                   extTasks, extracted, hist>>

\* The text the summary worker reads: full_text_extraction.txt if the folder
\* has one, else the original file when doc_info has a 'file_path' with a
\* plaintext suffix.
HasTextSource(d) ==
    \/ folders[d.folder].fte # NoFile
    \/ d.key = "file_path" /\ IsPlaintextSuffix(d.file)

\* _generate_summary_worker_static up to subprocess.run: a dict without
\* 'doc_folder', or a document without text source, raises inside the try
\* and the worker returns a failure; else the one LLM call is issued.
SummaryStart(d) ==
    /\ pc = "pool2"
    /\ d \in DOMAIN sumTasks /\ sumTasks[d].st = "queued"
    /\ Cardinality(Running(sumTasks)) < poolProcs
    /\ sumTasks' = [sumTasks EXCEPT ![d] =
          CASE d.kind = "exhibit" -> [@ EXCEPT !.st = "returned", !.cause = "KeyError"]
            [] ~HasTextSource(d)  -> [@ EXCEPT !.st = "returned", !.cause = "no_text"]
            [] OTHER              -> [@ EXCEPT !.st = "calling", !.calls = @ + 1]]
    /\ UNCHANGED <<driver, env, disk, runs, deletes, ctl, poolProcs, extTasks, extracted,
                   summarized, hist>>

\* The LLM call ends.  Exit code 0 makes the worker return success, whatever
\* the call left in document_summary.json (text = NoSummary: nothing written);
\* a non-zero exit code or a timeout makes it return a failure.
SummaryReturn(d, outcome, text) ==
    /\ pc = "pool2"
    /\ d \in DOMAIN sumTasks /\ sumTasks[d].st = "calling"
    /\ IF outcome = "ok"
       THEN /\ folders' = IF text = NoSummary THEN folders
                          ELSE [folders EXCEPT ![d.folder].summary = text]
            /\ sumTasks' = [sumTasks EXCEPT ![d] = [@ EXCEPT !.st = "returned", !.ok = TRUE]]
       ELSE /\ text = NoSummary
            /\ sumTasks' = [sumTasks EXCEPT ![d] =
                              [@ EXCEPT !.st = "returned", !.cause = outcome]]
            /\ UNCHANGED folders
    /\ UNCHANGED <<driver, env, intake, central, caseSummary, runs, deletes, ctl,
                   poolProcs, extTasks, extracted, summarized, hist>>

\* The success dict of the worker: it carries the source under 'file_path'.
SummaryRecord(d) == Doc(d.folder, d.file, "file_path")

\* phase_2_summarize_all after pool.map: split the results and log them.
\* Logging a failure reads fail['pdf_path'], a key the failure dict lacks:
\* with any failure the KeyError leaves phase_2_summarize_all.
Phase2Join ==
    /\ pc = "pool2"
    /\ PoolJoined(sumTasks)
    /\ IF Failed(sumTasks) = {}
       THEN /\ summarized' = { SummaryRecord(d) : d \in Successful(sumTasks) }
            /\ returned' = returned \cup {"phase_2_summarize_all"}
            /\ runLog' = runLog \cup {"Phase 2 complete (batch)"}
            /\ pc' = "ctl2"
            /\ UNCHANGED <<failLog, raised, exitCode>>
       ELSE IF "pdf_path" \in SummaryFailureKeys
       THEN /\ summarized' = { SummaryRecord(d) : d \in Successful(sumTasks) }
            /\ returned' = returned \cup {"phase_2_summarize_all"}
            /\ runLog' = runLog \cup {"Phase 2 complete (batch)", "summaries failed"}
            /\ failLog' = failLog \cup { d.file : d \in Failed(sumTasks) }
            /\ pc' = "ctl2"
            /\ UNCHANGED <<raised, exitCode>>
       ELSE /\ Raise("KeyError", {"Phase 2 complete (batch)", "summaries failed"})
            /\ UNCHANGED <<summarized, returned, failLog>>
    /\ everSummarized' = IF pc' = "ctl2" THEN everSummarized \cup summarized'
                          ELSE everSummarized
    /\ UNCHANGED <<driver, env, disk, runs, deletes, mode, poolProcs, extTasks, extracted,
                   sumTasks, everExtracted>>

\* The controller after phase_2_summarize_all returned.  run_all_phases stops
\* on an empty result and, without --all-phases, at the annotation
\* checkpoint; run_phase('summarize') ends; resume_from_phase('summarize')
\* goes on to phase 3 with whatever phase 2 returned.
ControllerAfterSummarize ==
    /\ pc = "ctl2"
    /\ CASE mode = "phase_summarize" ->
               Return({"Phase 2 complete", "All phases complete"})
         [] mode = "resume_summarize" ->
               /\ runLog' = runLog \cup {"Phase 2 complete", "PHASE 3"}
               /\ pc' = "phase3"
               /\ UNCHANGED <<raised, exitCode>>
         [] mode \in FullRunModes /\ summarized = {} ->
               Return({"Phase 2 complete", "Phase 2 failed - no summaries generated"})
         [] mode = "default" /\ summarized # {} ->
               Return({"Phase 2 complete", "Annotation checkpoint"})
         [] mode = "all_phases" /\ summarized # {} ->
               /\ runLog' = runLog \cup {"Phase 2 complete", "PHASE 3"}
               /\ pc' = "phase3"
               /\ UNCHANGED <<raised, exitCode>>
    /\ UNCHANGED <<driver, env, disk, runs, deletes, mode, returned, failLog, pools, hist>>

\* ------------------------------------------------------ phase 3: synthesis

\* The files of a document folder _load_summarized_documents takes as source
\* candidates: suffix neither .json nor .txt.
SourceFiles(s) == { f \in folders[s].files : f.ext \notin {"json", "txt"} }

\* The folders _load_summarized_documents reads: a document_summary.json and
\* at least one source candidate.
SummarizedFolders ==
    { s \in DOMAIN folders : folders[s].summary # NoSummary /\ SourceFiles(s) # {} }

\* run_phase('synthesize') and resume_from_phase('synthesize') load the
\* summarized documents from disk; a summary json.loads rejects raises.
LoadSummarized ==
    /\ pc = "load_summarized"
    /\ IF \E s \in SummarizedFolders : ~JsonLoads(CleanFences(folders[s].summary))
       THEN /\ Raise("JSONDecodeError", {})
            /\ UNCHANGED summarized
       ELSE /\ \E pick \in [SummarizedFolders -> UNION { SourceFiles(s) : s \in SummarizedFolders }] :
                  /\ \A s \in SummarizedFolders : pick[s] \in SourceFiles(s)
                  /\ summarized' = { Doc(s, pick[s], "file_path") : s \in SummarizedFolders }
            /\ runLog' = runLog \cup {"Loaded summarized documents from Phase 2"}
            /\ pc' = "phase3"
            /\ UNCHANGED <<raised, exitCode>>
    /\ UNCHANGED <<driver, env, disk, runs, deletes, mode, returned, failLog,
                   poolProcs, extTasks, extracted, sumTasks, hist>>

\* The documents of the list whose document_summary.json exists.
WithSummaryFile(docs) == { d \in docs : folders[d.folder].summary # NoSummary }

\* phase_3_synthesize_case_summary up to the LLM call: an empty list, or a
\* list none of whose summary files exists, makes it log and return; a
\* summary json.loads rejects raises; else the synthesis call is issued.
Phase3Begin ==
    /\ pc = "phase3"
    /\ CASE summarized = {} ->
               /\ runLog' = runLog \cup {"No summarized documents to synthesize"}
               /\ returned' = returned \cup {"phase_3_synthesize_case_summary"}
               /\ pc' = "ctl3"
               /\ UNCHANGED <<raised, exitCode>>
         [] summarized # {}
            /\ \E d \in WithSummaryFile(summarized) :
                  ~JsonLoads(CleanFences(folders[d.folder].summary)) ->
               /\ Raise("JSONDecodeError", {})
               /\ UNCHANGED returned
         [] summarized # {}
            /\ WithSummaryFile(summarized) = {} ->
               /\ runLog' = runLog \cup {"No document summaries found to synthesize"}
               /\ returned' = returned \cup {"phase_3_synthesize_case_summary"}
               /\ pc' = "ctl3"
               /\ UNCHANGED <<raised, exitCode>>
         [] OTHER ->
               /\ runLog' = runLog \cup {"Synthesizing Case Summary"}
               /\ pc' = "synth"
               /\ UNCHANGED <<returned, raised, exitCode>>
    /\ UNCHANGED <<driver, env, disk, runs, deletes, mode, failLog, pools, hist>>

\* The ways the synthesis LLM call can end: an error (non-zero exit code,
\* timeout, interface exception), or exit code 0 with or without having
\* written Case_Summary_and_Timeline.md.
SynthesisOutcomes == {"error", "written", "not_written"}

\* phase_3_synthesize_case_summary from the LLM call on: an error, or no
\* case summary file on disk afterwards, raises; else it logs success.
SynthesisReturn(outcome) ==
    /\ pc = "synth"
    /\ LET after == IF outcome = "written" THEN runs ELSE caseSummary
       IN  /\ caseSummary' = after
           /\ IF outcome = "error" \/ after = 0
              THEN /\ Raise("Exception", {"Case Summary synthesis failed"})
                   /\ UNCHANGED returned
              ELSE /\ runLog' = runLog \cup {"Case Summary synthesized"}
                   /\ returned' = returned \cup {"phase_3_synthesize_case_summary"}
                   /\ pc' = "ctl3"
                   /\ UNCHANGED <<raised, exitCode>>
    /\ UNCHANGED <<driver, env, intake, folders, central, runs, deletes, mode, failLog, pools, hist>>

\* The controller after phase_3_synthesize_case_summary returned: every
\* entry point logs phase 3 and the run as complete.
ControllerAfterSynthesize ==
    /\ pc = "ctl3"
    /\ Return({"Phase 3 complete", "All phases complete"})
    /\ UNCHANGED <<driver, env, disk, runs, deletes, mode, returned, failLog, pools, hist>>

\* ------------------------------------------------- setup, arrivals, Ctrl-C

\* main() with an intake path that does not exist: it prints the error and
\* calls sys.exit(1) before a DocumentProcessor is built.
MissingPath ==
    /\ pc \in {"idle", "done"}
    /\ runs < MaxRuns
    /\ runs' = runs + 1
    /\ pc' = "done"
    /\ exitCode' = 1
    /\ raised' = "none"
    /\ runLog' = {"Path does not exist"}
    /\ returned' = {}
    /\ failLog' = {}
    /\ poolProcs' = 0
    /\ extTasks' = <<>>
    /\ extracted' = {}
    /\ sumTasks' = <<>>
    /\ summarized' = {}
    /\ UNCHANGED <<driver, env, disk, deletes, mode, hist>>

\* Between two runs someone drops into the intake folder a new file that has
\* the name of a file already moved into its document folder (the files of
\* the document folders are the first of their name, those dropped again
\* the next).
DropFile(g) ==
    /\ pc = "done"
    /\ runs < MaxRuns
    /\ Cardinality({ f \in intake : f.gen > 0 }) < MaxDrops
    /\ \E s \in DOMAIN folders : g \in folders[s].files
    /\ ~\E f \in intake : SameName(f, g)
    /\ intake' = intake \cup {[g EXCEPT !.gen = @ + 1]}
    /\ UNCHANGED <<driver, env, folders, central, caseSummary, runs,
                   deletes, ctl, pools, hist>>

\* KeyboardInterrupt reaches the controller while it waits in pool.map or in
\* the synthesis call.  run_all_phases catches it, logs the resume hint and
\* returns, and main() calls sys.exit(0); run_phase and resume_from_phase have
\* no handler and main() catches Exception only, so the interrupt leaves the
\* program (exit status 130, killed by SIGINT).  Leaving the with-block of
\* the Pool terminates its workers.
Interrupt ==
    /\ pc \in {"pool1", "pool2", "synth"}
    /\ pc' = "done"
    /\ IF mode \in FullRunModes
       THEN /\ runLog' = runLog \cup {"Processing interrupted by user",
                                      "You can resume with: --resume-from [phase]"}
            /\ raised' = "none"
            /\ exitCode' = 0
       ELSE /\ raised' = "KeyboardInterrupt"
            /\ exitCode' = 130
            /\ UNCHANGED runLog
    /\ poolProcs' = 0
    /\ extTasks' = <<>>
    /\ sumTasks' = <<>>
    /\ UNCHANGED <<driver, env, disk, runs, deletes, mode, returned, failLog,
                   extracted, summarized, hist>>

\* ------------------------------------------------------------ specification

Next ==
    \/ \E m \in Modes : StartRun(m)
    \/ MissingPath
    \/ \E s \in DOMAIN folders : \E g \in folders[s].files : DropFile(g)
    \/ Interrupt
    \/ Phase1Begin
    \/ \E f \in DOMAIN extTasks : ExternalDelete(f)
    \/ \E f \in DOMAIN extTasks : ExtractRoute(f)
    \/ \E f \in DOMAIN extTasks, success \in BOOLEAN : ExtractHandle(f, success)
    \/ \E f \in DOMAIN extTasks : ExtractWrite(f)
    \/ Phase1Join
    \/ ControllerAfterExtract
    \/ LoadExtracted
    \/ Phase2Begin
    \/ \E d \in DOMAIN sumTasks : SummaryStart(d)
    \/ \E d \in DOMAIN sumTasks, outcome \in CallOutcomes,
          text \in SummaryTexts \cup {NoSummary} : SummaryReturn(d, outcome, text)
    \/ Phase2Join
    \/ ControllerAfterSummarize
    \/ LoadSummarized
    \/ Phase3Begin
    \/ \E outcome \in SynthesisOutcomes : SynthesisReturn(outcome)
    \/ ControllerAfterSynthesize

Spec == Init /\ [][Next]_vars

\* ----------------------------------- _get_centralized_path, called in turn

\* The original file names the sequential driver inserts: two with the same
\* sanitized base name ('a'), two whose base name is another base name
\* followed by a counter ('a_1', from an underscore and from a space).
NameUniverse ==
    { File(<<"a">>, "pdf"), File(<<"A">>, "csv"), File(<<"a", "_", "1">>, "pdf"),
      File(<<"a", " ", "1">>, "txt"), File(<<"c">>, "txt") }

\* The centralized folder is empty and nothing else of the case exists.
InitCentral ==
    /\ cpuCount = 1
    /\ exhibitSummaries = FALSE
    /\ apiKey = TRUE
    /\ intake = {}
    /\ folders = <<>>
    /\ central = <<>>
    /\ caseSummary = 0
    /\ runs = 0
    /\ deletes = 0
    /\ inserted = <<>>
    /\ given = NoCall
    /\ result = NoCall
    /\ mode = "default"
    /\ pc = "idle"
    /\ returned = {}
    /\ raised = "none"
    /\ runLog = {}
    /\ failLog = {}
    /\ exitCode = -1
    /\ poolProcs = 0
    /\ extTasks = <<>>
    /\ extracted = {}
    /\ sumTasks = <<>>
    /\ summarized = {}
    /\ everExtracted = {}
    /\ everSummarized = {}

\* One insertion, as every handler makes it: ask _get_centralized_path for
\* the path of the original file name, then write the text at that path.
InsertCentral(f) ==
    /\ Len(inserted) < MaxInserts
    /\ LET path == GetCentralizedPath(central, f)
       IN  /\ central' = [n \in DOMAIN central \cup {path} |->
                             IF n = path THEN f ELSE central[n]]
           /\ inserted' = Append(inserted, [src |-> f, path |-> path])
    /\ UNCHANGED <<env, intake, folders, caseSummary, runs, deletes, ctl,
                   pools, hist, given, result>>

NextCentral == \E f \in NameUniverse : InsertCentral(f)

SpecCentral == InitCentral /\ [][NextCentral]_vars

\* ------------------------------------------ function drivers: common part

\* max_retries = 3 of _generate_summary_sync
SummaryRetries == 3

\* Nothing of the pipeline runs while one operation is driven on its own.
CaseIdle ==
    /\ cpuCount = 1
    /\ exhibitSummaries = FALSE
    /\ apiKey = TRUE
    /\ intake = {}
    /\ folders = <<>>
    /\ central = <<>>
    /\ caseSummary = 0
    /\ runs = 0
    /\ deletes = 0
    /\ inserted = <<>>
    /\ mode = "default"
    /\ pc = "idle"
    /\ returned = {}
    /\ raised = "none"
    /\ runLog = {}
    /\ failLog = {}
    /\ exitCode = -1
    /\ poolProcs = 0
    /\ extTasks = <<>>
    /\ extracted = {}
    /\ sumTasks = <<>>
    /\ summarized = {}
    /\ everExtracted = {}
    /\ everSummarized = {}

pipeline == <<env, disk, runs, deletes, ctl, pools, hist, inserted>>

\* ------------------------------------ _run_verification_on_case_summary

\* The files one place can hold: <<place, i>>.
PlaceFiles(place) == { <<place, i>> : i \in 1..MaxPlaceFiles }

\* What the hook finds: the case summary to verify, the configuration
\* (verification_sources_dir unset, naming a missing directory, or naming a
\* directory; verification_sources_glob set or not) and the files of the
\* four places.
VerificationInputs ==
    [ op           : {"verification"},
      subject      : BOOLEAN,
      sourcesDir   : {"unset", "missing", "present"},
      dirFiles     : SUBSET PlaceFiles("dir"),
      sourcesGlob  : BOOLEAN,
      globFiles    : SUBSET PlaceFiles("glob"),
      centralFiles : SUBSET PlaceFiles("central"),
      legacyFiles  : SUBSET PlaceFiles("legacy") ]

\* The centralized folder before the glob, and the legacy files before both.
ResolveSourcesLegacyFirst(g) ==
    LET s1 == g.legacyFiles
        s2 == IF s1 = {} THEN g.centralFiles ELSE s1
        s3 == IF s2 = {} /\ g.sourcesGlob THEN g.globFiles ELSE s2
    IN  IF s3 = {} /\ g.sourcesDir = "present" THEN g.dirFiles ELSE s3

\* The source list of the hook: each step runs only while the list is empty.
ResolveSources(g) ==
    LET s1 == IF g.sourcesDir = "present" THEN g.dirFiles ELSE {}
        s2 == IF s1 = {} /\ g.sourcesGlob THEN g.globFiles ELSE s1
        s3 == IF s2 = {} THEN g.centralFiles ELSE s2
    IN  IF s3 = {} THEN g.legacyFiles ELSE s3

\* Exit codes of verify_document: verified, issues found, anything else.
VerifyCodes == {0, 2, 1}

InitVerification ==
    /\ CaseIdle
    /\ given \in VerificationInputs
    /\ result = NoCall

\* One call of the hook. verify_document is called only with a subject and
\* a non-empty source list, once the runner is imported; the hook never
\* raises, an import error included.
RunVerification(importable, code) ==
    /\ given.op = "verification"
    /\ result = NoCall
    /\ LET sources == IF given.subject THEN ResolveSources(given) ELSE {}
           warned  == (IF ~given.subject THEN {"Case summary not found"} ELSE {})
                      \cup (IF given.subject /\ given.sourcesDir = "missing"
                            THEN {"Verification sources directory not found"} ELSE {})
                      \cup (IF given.subject /\ sources = {}
                            THEN {"No source documents found"} ELSE {})
       IN  result' = [ op      |-> "verification",
                       sources |-> sources,
                       invoked |-> sources # {} /\ importable,
                       code    |-> IF sources # {} /\ importable THEN code ELSE -1,
                       log     |-> warned \cup (IF sources # {} /\ ~importable
                                               THEN {"Verification error"} ELSE {}) ]
    /\ UNCHANGED <<pipeline, given>>

NextVerification ==
    \E importable \in BOOLEAN, code \in VerifyCodes : RunVerification(importable, code)

SpecVerification == InitVerification /\ [][NextVerification]_vars

\* ------------------------- extract_text_with_mistral: page reconstruction

\* What one page of the OCR response can hold (page.markdown), as characters.
PageTexts == { <<>>, <<"x">>, <<"y", "\n">> }

\* ocr_response.pages: up to MaxPages pages.
PageLists == UNION { [1..n -> PageTexts] : n \in 0..MaxPages }

\* The marker line written with the enumerate index as it is.
PageMarkerUnshifted(i) == <<"--- Page ">> \o Decimal(i) \o <<" ---", "\n">>

\* f"--- Page {i + 1} ---\n" for the enumerate index i (from 0).
PageMarker(i) == <<"--- Page ">> \o Decimal(i + 1) \o <<" ---", "\n">>

InitPages ==
    /\ CaseIdle
    /\ given \in [ op : {"ocr"}, pages : PageLists ]
    /\ result = NoCall

\* client.ocr.process returned: extracted_text = "".
OcrProcessed ==
    /\ given.op = "ocr"
    /\ result = NoCall
    /\ result' = [ op |-> "ocr", i |-> 0, text |-> <<>> ]
    /\ UNCHANGED <<pipeline, given>>

\* One turn of the loop over enumerate(ocr_response.pages).
AppendPage ==
    /\ result.op = "ocr"
    /\ result.i < Len(given.pages)
    /\ result' = [ result EXCEPT
                     !.text = @ \o PageMarker(result.i)
                                \o given.pages[result.i + 1] \o <<"\n", "\n">>,
                     !.i = @ + 1 ]
    /\ UNCHANGED <<pipeline, given>>

NextPages == OcrProcessed \/ AppendPage

SpecPages == InitPages /\ [][NextPages]_vars

\* ------------------------------------------- code-fence cleaning, driven

RECURSIVE Fences(_)
\* k code fences in a row.
Fences(k) == IF k = 0 THEN <<>> ELSE <<"FENCE">> \o Fences(k - 1)

\* The texts a summary file is read with: a body (one JSON text, other text,
\* or nothing) behind up to MaxFenceDepth opening fences, the last one with
\* or without the word json, before as many or fewer closing fences, with
\* or without white space at every joint.
FencedTexts ==
    { pre \o Fences(open) \o tag \o in \o body \o out \o Fences(close) \o post :
        pre \in {<<>>, <<"ws">>}, open \in 0..MaxFenceDepth,
        tag \in {<<>>, <<"json">>}, in \in {<<>>, <<"ws">>},
        body \in {<<"J">>, <<"x">>, <<>>}, out \in {<<>>, <<"ws">>},
        close \in 0..MaxFenceDepth, post \in {<<>>, <<"ws">>} }

InitCleaning ==
    /\ CaseIdle
    /\ given \in [ op : {"clean"}, text : FencedTexts ]
    /\ result = NoCall

\* The file is read: content = f.read().
ReadSummary ==
    /\ given.op = "clean"
    /\ result = NoCall
    /\ result' = [ op |-> "clean", texts |-> <<>>, parsed |-> <<>> ]
    /\ UNCHANGED <<pipeline, given>>

\* The cleaning lines and json.loads, applied to the text read or to the
\* text the cleaning before left.
CleanAndParse ==
    /\ result.op = "clean"
    /\ Len(result.texts) < MaxCleanings
    /\ LET content == IF result.texts = <<>> THEN given.text
                      ELSE result.texts[Len(result.texts)]
           cleaned == CleanFences(content)
       IN  result' = [ result EXCEPT !.texts = Append(@, cleaned),
                                     !.parsed = Append(@, JsonLoads(cleaned)) ]
    /\ UNCHANGED <<pipeline, given>>

NextCleaning == ReadSummary \/ CleanAndParse

SpecCleaning == InitCleaning /\ [][NextCleaning]_vars

\* ------------------------------------------- _detect_file_type, driven

LowerLetters ==
    <<"a", "b", "c", "d", "e", "f", "g", "h", "i", "j", "k", "l", "m",
      "n", "o", "p", "q", "r", "s", "t", "u", "v", "w", "x", "y", "z">>

UpperLetters ==
    <<"A", "B", "C", "D", "E", "F", "G", "H", "I", "J", "K", "L", "M",
      "N", "O", "P", "Q", "R", "S", "T", "U", "V", "W", "X", "Y", "Z">>

\* str.upper() and str.lower() on one character.
ToUpper(c) ==
    IF \E i \in 1..Len(LowerLetters) : LowerLetters[i] = c
    THEN UpperLetters[CHOOSE i \in 1..Len(LowerLetters) : LowerLetters[i] = c]
    ELSE c

ToLower(c) ==
    IF \E i \in 1..Len(UpperLetters) : UpperLetters[i] = c
    THEN LowerLetters[CHOOSE i \in 1..Len(UpperLetters) : UpperLetters[i] = c]
    ELSE c

\* A suffix taken as it is written.
AsWritten(suffix) == suffix

\* file_path.suffix.lower()
Lower(suffix) == [ i \in 1..Len(suffix) |-> ToLower(suffix[i]) ]

\* SUPPORTED_FILE_TYPES with its extensions spelled out, dot included.
SUPPORTED_SUFFIXES ==
    [ pdf   |-> { <<".", "p", "d", "f">> },
      docx  |-> { <<".", "d", "o", "c", "x">> },
      pptx  |-> { <<".", "p", "p", "t", "x">> },
      csv   |-> { <<".", "c", "s", "v">> },
      xlsx  |-> { <<".", "x", "l", "s", "x">>,
                 <<".", "x", "l", "s">> },
      txt   |-> { <<".", "t", "x", "t">> },
      md    |-> { <<".", "m", "d">>,
                 <<".", "m", "a", "r", "k", "d", "o", "w", "n">> },
      image |-> { <<".", "j", "p", "g">>,
                 <<".", "j", "p", "e", "g">>,
                 <<".", "p", "n", "g">>,
                 <<".", "g", "i", "f">>,
                 <<".", "b", "m", "p">>,
                 <<".", "t", "i", "f", "f">>,
                 <<".", "t", "i", "f">>,
                 <<".", "a", "v", "i", "f">> },
      audio |-> { <<".", "m", "p", "3">>,
                 <<".", "w", "a", "v">>,
                 <<".", "m", "4", "a">>,
                 <<".", "o", "g", "g">> } ]

\* The order in which the dict is walked.
FileTypeOrder ==
    <<"pdf", "docx", "pptx", "csv", "xlsx", "txt", "md", "image", "audio">>

\* _detect_file_type on the suffix of the path: the first category, in dict
\* order, that lists the lower-cased suffix; 'unsupported' when none does.
DetectSuffixType(suffix) ==
    LET ext  == Lower(suffix)
        hits == { i \in 1..Len(FileTypeOrder) : ext \in SUPPORTED_SUFFIXES[FileTypeOrder[i]] }
    IN  IF hits = {} THEN "unsupported"
        ELSE FileTypeOrder[CHOOSE i \in hits : \A j \in hits : i <= j]

ListedSuffixes == UNION { SUPPORTED_SUFFIXES[t] : t \in DOMAIN SUPPORTED_SUFFIXES }

\* The suffixes the driver hands over: every listed one in lower case, in
\* upper case and with its first letter in upper case; suffixes no category
\* lists; and the empty suffix of a name without extension.
SuffixUniverse ==
    ListedSuffixes
    \cup { [ i \in 1..Len(e) |-> ToUpper(e[i]) ] : e \in ListedSuffixes }
    \cup { [ i \in 1..Len(e) |-> IF i = 2 THEN ToUpper(e[i]) ELSE e[i] ] : e \in ListedSuffixes }
    \cup { <<>>, <<".", "e", "x", "e">>, <<".", "p", "d">>, <<".", "p", "d", "f", "x">>,
           <<".", "P", "D", "F", "X">>, <<".", "t", "x", "t", "~">>, <<".", "J", "S", "O", "N">> }

InitDetect ==
    /\ CaseIdle
    /\ given \in [ op : {"detect"}, suffix : SuffixUniverse ]
    /\ result = NoCall

DetectType ==
    /\ given.op = "detect"
    /\ result = NoCall
    /\ result' = [ op |-> "detect", type |-> DetectSuffixType(given.suffix) ]
    /\ UNCHANGED <<pipeline, given>>

NextDetect == DetectType

SpecDetect == InitDetect /\ [][NextDetect]_vars

\* ------------------------------------------- orchestrator.py: the council

\* The phases of main() in the order of its text, and the FILES key of the
\* artifact each one produces.
CouncilPhases == <<"Archaeology", "Schema", "API", "Fixtures", "Plan">>

ArtifactOf(phase) ==
    CASE phase = "Archaeology" -> "INFRA"
      [] phase = "Schema"      -> "SCHEMA"
      [] phase = "API"         -> "API"
      [] phase = "Fixtures"    -> "FIXTURES"
      [] phase = "Plan"        -> "PLAN"

CouncilArtifacts == { ArtifactOf(CouncilPhases[i]) : i \in 1..Len(CouncilPhases) }

\* The phase after a phase, "adjourned" after the last.
PhaseAfter(phase) ==
    LET i == CHOOSE k \in 1..Len(CouncilPhases) : CouncilPhases[k] = phase
    IN  IF i = Len(CouncilPhases) THEN "adjourned" ELSE CouncilPhases[i + 1]

\* A council that calls the agent of every phase it reaches.
CallsAgentAlways(phase, artifacts, existingCode) == TRUE

\* The phase calls run_agent_command: its artifact does not exist and, for
\* the archaeology, scan_existing_infrastructure found code.
CallsAgent(phase, artifacts, existingCode) ==
    /\ ArtifactOf(phase) \notin artifacts
    /\ phase = "Archaeology" => existingCode

\* A phase that saves whatever came of the call.
SavesWhenCalled(calls, there, agentOk) == calls \/ ~there

\* save_file is reached: the agent was called and run_agent_command
\* returned, or no agent is called and the artifact is absent (the
\* greenfield text).
Saves(calls, there, agentOk) == (calls /\ agentOk) \/ (~calls /\ ~there)

\* What main() finds: a non-empty brief or not, existing code to scan or
\* none, and the artifacts earlier runs left in the specs directory.
InitCouncil ==
    /\ CaseIdle
    /\ given \in [ op : {"council"}, brief : BOOLEAN, existingCode : BOOLEAN,
                   artifacts : SUBSET CouncilArtifacts ]
    /\ result = NoCall

\* main() up to the first phase: without a brief it exits with 1.
CouncilConvenes ==
    /\ given.op = "council"
    /\ result = NoCall
    /\ result' = [ op        |-> "council",
                   pc        |-> IF given.brief THEN CouncilPhases[1] ELSE "exit1",
                   artifacts |-> given.artifacts,
                   reached   |-> <<>>,
                   absent    |-> {},
                   invoked   |-> <<>> ]
    /\ UNCHANGED <<pipeline, given>>

\* One phase block of main(): when the artifact is there the phase is
\* skipped; else the agent is called and its output saved, or (archaeology
\* of a greenfield project) a fixed text is saved without a call.  An agent
\* that fails (exit code, missing CLI, timeout) ends the run with exit 1.
CouncilPhase(agentOk) ==
    /\ result.op = "council"
    /\ result.pc \in { CouncilPhases[i] : i \in 1..Len(CouncilPhases) }
    /\ LET phase  == result.pc
           there  == ArtifactOf(phase) \in result.artifacts
           calls  == CallsAgent(phase, result.artifacts, given.existingCode)
           saves  == Saves(calls, there, agentOk)
       IN  result' = [ result EXCEPT
                         !.pc        = IF calls /\ ~agentOk THEN "exit1" ELSE PhaseAfter(phase),
                         !.artifacts = IF saves THEN @ \cup {ArtifactOf(phase)} ELSE @,
                         !.reached   = Append(@, phase),
                         !.absent    = IF there THEN @ ELSE @ \cup {phase},
                         !.invoked   = IF calls THEN Append(@, phase) ELSE @ ]
    /\ UNCHANGED <<pipeline, given>>

NextCouncil == CouncilConvenes \/ \E agentOk \in BOOLEAN : CouncilPhase(agentOk)

SpecCouncil == InitCouncil /\ [][NextCouncil]_vars

\* --------------------------------------------------------- executor.py

\* parse_tickets: the ids of the '## Ticket N:' sections of the plan, in
\* the order of the text (an id can be 0, and can occur twice).
TicketPlans == UNION { [1..n -> 0..MaxTicketId] : n \in 0..MaxTickets }

\* args.ticket: absent (None) or an integer; one more than MaxTicketId is an
\* id no ticket has.
TicketArgs ==
    { [set |-> FALSE, n |-> 0] } \cup { [set |-> TRUE, n |-> n] : n \in 0..(MaxTicketId + 1) }

\* 'if specific_ticket:' of execute_tickets: None and 0 are false.
Truthy(arg) == arg.set /\ arg.n # 0

\* The tickets execute_tickets goes through.
SelectedTickets(plan, arg) ==
    IF Truthy(arg) THEN SelectSeq(plan, LAMBDA id : id = arg.n) ELSE plan

\* init_job: the job directory of a ticket, status 'running'.
NewJob(id, run) == [ ticket |-> id, status |-> "running", run |-> run ]

InitExecutor ==
    /\ CaseIdle
    /\ given \in [ op : {"executor"}, planFile : BOOLEAN, plan : TicketPlans ]
    /\ result = [ op      |-> "executor",
                  jobs    |-> <<>>,
                  runs    |-> 0,
                  mode    |-> "none",
                  arg     |-> [set |-> FALSE, n |-> 0],
                  spawned |-> <<>>,
                  exit    |-> -1 ]

\* main() with --status: prints, touches nothing.
ExecutorStatus ==
    /\ result.op = "executor"
    /\ result.runs < MaxExecutorRuns
    /\ result' = [ result EXCEPT !.runs = @ + 1, !.mode = "status",
                                 !.arg = [set |-> FALSE, n |-> 0],
                                 !.spawned = <<>>, !.exit = 0 ]
    /\ UNCHANGED <<pipeline, given>>

\* main() without --status: exit 1 without a plan or without a ticket in
\* it; --list prints; else execute_tickets spawns one job per selected
\* ticket (none, with a message, when --ticket selects nothing).
ExecutorMain(list, arg) ==
    /\ result.op = "executor"
    /\ result.runs < MaxExecutorRuns
    /\ LET noPlan  == ~given.planFile \/ given.plan = <<>>
           tickets == IF noPlan \/ list THEN <<>> ELSE SelectedTickets(given.plan, arg)
           run     == result.runs + 1
       IN  result' = [ result EXCEPT
                         !.runs    = run,
                         !.mode    = IF noPlan THEN "no_plan"
                                     ELSE IF list THEN "list" ELSE "execute",
                         !.arg     = arg,
                         !.spawned = tickets,
                         !.jobs    = @ \o [ i \in 1..Len(tickets) |-> NewJob(tickets[i], run) ],
                         !.exit    = IF noPlan THEN 1 ELSE 0 ]
    /\ UNCHANGED <<pipeline, given>>

\* run_worker in the detached subprocess: the agent call ends and
\* status.json says 'completed' or 'failed'.
WorkerExits(i, ok) ==
    /\ result.op = "executor"
    /\ i \in 1..Len(result.jobs)
    /\ result.jobs[i].status = "running"
    /\ result' = [ result EXCEPT
                     !.jobs[i].status = IF ok THEN "completed" ELSE "failed" ]
    /\ UNCHANGED <<pipeline, given>>

NextExecutor ==
    \/ ExecutorStatus
    \/ \E list \in BOOLEAN, arg \in TicketArgs : ExecutorMain(list, arg)
    \/ \E i \in 1..(MaxTickets * MaxExecutorRuns), ok \in BOOLEAN : WorkerExits(i, ok)

SpecExecutor == InitExecutor /\ [][NextExecutor]_vars

\* ------------------------------------------------ _generate_summary_sync

\* How one 'gemini' subprocess call can end: exit 0 with or without the
\* output file written, a non-zero exit with 'rate limit' or '429' in
\* stderr, another non-zero exit, or subprocess.TimeoutExpired.
CliOutcomes == {"written", "not_written", "rate_limit", "429", "error", "timeout"}

\* wait_time = (attempt + 1) * 2, for the loop index attempt (from 0).
WaitTime(attempt) == (attempt + 1) * 2

\* What the function finds: the text source of the document (a
\* full_text_extraction.txt, else a plaintext original, else none), whether
\* the Gemini interface is configured, and whether a document_summary.json
\* is there already.
InitSummarySync ==
    /\ CaseIdle
    /\ given \in [ op : {"summary_sync"}, source : {"fte", "plaintext", "none"},
                   interface : BOOLEAN, output : BOOLEAN ]
    /\ result = NoCall

\* Up to the call: without a text source the function raises.
SummarySyncBegins ==
    /\ given.op = "summary_sync"
    /\ result = NoCall
    /\ result' = [ op      |-> "summary_sync",
                   status  |-> IF given.source = "none" THEN "raised"
                               ELSE IF given.interface THEN "interface" ELSE "loop",
                   attempt |-> 0,
                   calls   |-> <<>>,
                   slept   |-> <<>>,
                   output  |-> given.output ]
    /\ UNCHANGED <<pipeline, given>>

\* self.gemini.generate_content: one call; an exception, or no output file
\* after it, raises.
InterfaceCall(ok, writes) ==
    /\ result.op = "summary_sync"
    /\ result.status = "interface"
    /\ LET output == result.output \/ (ok /\ writes)
       IN  result' = [ result EXCEPT
                         !.calls  = Append(@, IF ~ok THEN "error"
                                              ELSE IF writes THEN "written" ELSE "not_written"),
                         !.output = output,
                         !.status = IF ok /\ output THEN "returned" ELSE "raised" ]
    /\ UNCHANGED <<pipeline, given>>

\* One turn of 'for attempt in range(max_retries)': the subprocess call and
\* what follows it, up to break, continue (after the sleep, if any) or raise.
CliAttempt(outcome) ==
    /\ result.op = "summary_sync"
    /\ result.status = "loop"
    /\ result.attempt < SummaryRetries
    /\ LET attempt == result.attempt
           more    == attempt < SummaryRetries - 1
           output  == result.output \/ outcome = "written"
           retry   == outcome \in {"rate_limit", "429", "timeout"} /\ more
           ok      == outcome \in {"written", "not_written"} /\ output
       IN  result' = [ result EXCEPT
                         !.calls   = Append(@, outcome),
                         !.output  = output,
                         !.slept   = IF ~retry THEN @
                                     ELSE IF outcome = "timeout" THEN Append(@, 0)
                                     ELSE Append(@, WaitTime(attempt)),
                         !.attempt = IF retry THEN @ + 1 ELSE @,
                         !.status  = IF retry THEN "loop"
                                     ELSE IF ok THEN "returned" ELSE "raised" ]
    /\ UNCHANGED <<pipeline, given>>

NextSummarySync ==
    \/ SummarySyncBegins
    \/ \E ok \in BOOLEAN, writes \in BOOLEAN : InterfaceCall(ok, writes)
    \/ \E outcome \in CliOutcomes : CliAttempt(outcome)

SpecSummarySync == InitSummarySync /\ [][NextSummarySync]_vars

\* ------------------------------------------- _sanitize_filename, driven

\* The characters of the file names handed over: a lower-case and an
\* upper-case letter, a digit, the dot, the space, the two safe marks and
\* one mark that is not safe.
NameChars == {"a", "B", "1", ".", " ", "_", "-", "!"}

\* unit * n
Repeat(unit, n) == [ i \in 1..(n * Len(unit)) |-> unit[((i - 1) % Len(unit)) + 1] ]

\* Every name of up to MaxNameChars characters, and names that reach past
\* the 200 characters kept, with and without an extension.
FileNames ==
    UNION { [1..n -> NameChars] : n \in 0..MaxNameChars }
    \cup { Repeat(unit, n) \o ext :
             unit \in { <<"a">>, <<"!", "B">>, <<"_">> },
             n \in { MaxNameLen, MaxNameLen + 1 },
             ext \in { <<>>, <<".", "a">> } }

\* filename.rsplit('.', 1)[0] if '.' in filename else filename
RSplitStem(name) ==
    LET dots == { i \in 1..Len(name) : name[i] = "." }
    IN  IF dots = {} THEN name
        ELSE SubSeq(name, 1, (CHOOSE i \in dots : \A j \in dots : j <= i) - 1)

\* _sanitize_filename on a file name given as a string.
SanitizeName(name) == SanitizeFilename([stem |-> RSplitStem(name), ext |-> "", gen |-> 0])

InitSanitize ==
    /\ CaseIdle
    /\ given \in [ op : {"sanitize"}, name : FileNames ]
    /\ result = NoCall

\* _sanitize_filename on the name given.
SanitizeGiven ==
    /\ given.op = "sanitize"
    /\ result = NoCall
    /\ result' = [ op |-> "sanitize", names |-> << SanitizeName(given.name) >> ]
    /\ UNCHANGED <<pipeline, given>>

\* _sanitize_filename on the name it returned.
SanitizeReturned ==
    /\ result.op = "sanitize"
    /\ Len(result.names) = 1
    /\ result' = [ result EXCEPT !.names = Append(@, SanitizeName(result.names[1])) ]
    /\ UNCHANGED <<pipeline, given>>

NextSanitize == SanitizeGiven \/ SanitizeReturned

SpecSanitize == InitSanitize /\ [][NextSanitize]_vars

\* ----------------------------- synthesis and the verification hook, driven

\* The controller entry points that reach phase 3: run_all_phases with
\* --all-phases, run_phase('synthesize'), resume_from_phase('summarize') and
\* resume_from_phase('synthesize').
SynthesisEntries ==
    {"all_phases", "phase_synthesize", "resume_summarize", "resume_synthesize"}

\* main(): verification_timing 'off' clears verify_case_summary.
VerifyEnabled(g) == g.verify /\ g.timing # "off"

\* What the run finds when it reaches phase 3: the entry point, the settings
\* auto_verify_case_summary and verification_timing, whether a document
\* summary can be collected, and whether an earlier run left a case summary.
InitSynthesisRun ==
    /\ CaseIdle
    /\ given \in [ op : {"synthesis_run"}, entry : SynthesisEntries,
                   verify : BOOLEAN, timing : {"immediate", "post_phase", "off"},
                   summaries : BOOLEAN, stale : BOOLEAN ]
    /\ result = NoCall

\* The controller calls phase_3_synthesize_case_summary.
SynthesisRunBegins ==
    /\ given.op = "synthesis_run"
    /\ result = NoCall
    /\ result' = [ op          |-> "synthesis_run",
                   pc          |-> "phase3",
                   caseSummary |-> given.stale,
                   synthesized |-> FALSE,
                   hooks       |-> <<>> ]
    /\ UNCHANGED <<pipeline, given>>

\* phase_3_synthesize_case_summary: it returns at once without a summary to
\* synthesize; else the LLM call, the test that the file exists, the success
\* message and, with timing 'immediate', the verification hook; an error or
\* a missing file raises.
PhaseThree(outcome) ==
    /\ result.op = "synthesis_run"
    /\ result.pc = "phase3"
    /\ LET after == result.caseSummary \/ (given.summaries /\ outcome = "written")
           ok    == given.summaries /\ outcome # "error" /\ after
           hook  == ok /\ VerifyEnabled(given) /\ given.timing = "immediate"
       IN  result' = [ result EXCEPT
                         !.caseSummary = after,
                         !.synthesized = ok,
                         !.hooks = IF hook THEN Append(@, [at |-> "immediate", subject |-> after])
                                   ELSE @,
                         !.pc = IF given.summaries /\ ~ok THEN "raised" ELSE "after3" ]
    /\ UNCHANGED <<pipeline, given>>

\* The controller after phase 3 returned: run_all_phases calls the hook with
\* timing 'post_phase'; run_phase and resume_from_phase only log.
ControllerTail ==
    /\ result.op = "synthesis_run"
    /\ result.pc = "after3"
    /\ LET hook == /\ given.entry = "all_phases"
                   /\ VerifyEnabled(given) /\ given.timing = "post_phase"
       IN  result' = [ result EXCEPT
                         !.hooks = IF hook
                                   THEN Append(@, [at |-> "post_phase",
                                                   subject |-> result.caseSummary])
                                   ELSE @,
                         !.pc = "done" ]
    /\ UNCHANGED <<pipeline, given>>

NextSynthesisRun ==
    \/ SynthesisRunBegins
    \/ \E outcome \in SynthesisOutcomes : PhaseThree(outcome)
    \/ ControllerTail

SpecSynthesisRun == InitSynthesisRun /\ [][NextSynthesisRun]_vars

\* ------------------------------------------------- executor job directories
\* executor.py: init_job, spawn_worker, run_worker and get_execution_status,
\* one step per file operation. given = the --agent of the executor run,
\* result = the job directories and the status query under way.

\* --agent as typed: two supported names, an unknown one, the empty string.
AgentNames ==
    { <<"g", "e", "m", "i", "n", "i">>, <<"A", "u", "g", "g", "i", "e">>,
      <<"c", "o", "d", "e", "x">>, <<>> }

\* The keys of AGENTS.
AGENTS == { <<"g", "e", "m", "i", "n", "i">>, <<"a", "u", "g", "g", "i", "e">> }

\* What subprocess.run does for a supported agent: returncode 0, another
\* returncode, TimeoutExpired, FileNotFoundError.
AgentOutcomes == {"exit0", "nonzero", "timeout", "not_found"}

\* status.json before write_json has opened it, between open(path, "w")
\* and json.dump, and after.
AbsentJson == [ state |-> "absent", status |-> "", exit_code |-> -1, error |-> FALSE ]

EmptyJson == [ state |-> "empty", status |-> "", exit_code |-> -1, error |-> FALSE ]

\* The status init_job writes; exit_code None is -1.
RunningJson == [ state |-> "written", status |-> "running", exit_code |-> -1, error |-> FALSE ]

WorkerStatusCompleted(exit_code) == "completed"

\* "completed" if exit_code == 0 else "failed"
WorkerStatus(exit_code) == IF exit_code = 0 THEN "completed" ELSE "failed"

\* status.update({...}) of run_worker, written by write_json.
FinishedJson(exit_code) ==
    [ state     |-> "written",
      status    |-> WorkerStatus(exit_code),
      exit_code |-> exit_code,
      error     |-> exit_code # 0 ]

IdleQuery ==
    [ pc |-> "idle", dirs |-> 0, next |-> 1, loaded |-> <<>>, count |-> 0,
      summary |-> [ total |-> 0, running |-> 0, completed |-> 0, failed |-> 0 ] ]

InitJobs ==
    /\ CaseIdle
    /\ given \in [ op : {"jobs"}, agent : AgentNames ]
    /\ result = [ op |-> "jobs", jobs |-> <<>>, query |-> IdleQuery ]

\* execute_tickets is between init_job and spawn_worker of some ticket.
MainBusy == \E i \in 1..Len(result.jobs) : result.jobs[i].pc \in {"mkdir", "open", "created"}

\* init_job up to write_json(job_dir / "ticket.json"): the job directory
\* exists, status.json not yet.
InitJobMkdir ==
    /\ result.op = "jobs"
    /\ Len(result.jobs) < MaxJobs
    /\ ~MainBusy
    /\ result' = [ result EXCEPT !.jobs = Append(@,
                     [ agent  |-> given.agent,
                       pc     |-> "mkdir",
                       json   |-> AbsentJson,
                       output |-> <<>>,
                       report |-> FALSE,
                       cli    |-> "none",
                       code   |-> 0 ]) ]
    /\ UNCHANGED <<pipeline, given>>

\* write_json(job_dir / "status.json", status): open(path, "w") creates the
\* file empty.
InitJobOpen(i) ==
    /\ result.op = "jobs"
    /\ i \in 1..Len(result.jobs)
    /\ result.jobs[i].pc = "mkdir"
    /\ result' = [ result EXCEPT !.jobs[i].pc = "open", !.jobs[i].json = EmptyJson ]
    /\ UNCHANGED <<pipeline, given>>

\* json.dump and close, then output.jsonl with the start event and run.log.
InitJobDump(i) ==
    /\ result.op = "jobs"
    /\ i \in 1..Len(result.jobs)
    /\ result.jobs[i].pc = "open"
    /\ result' = [ result EXCEPT !.jobs[i].pc = "created",
                                 !.jobs[i].json = RunningJson,
                                 !.jobs[i].output = <<"start">> ]
    /\ UNCHANGED <<pipeline, given>>

\* spawn_worker: Popen of the program with --worker.
SpawnWorker(i) ==
    /\ result.op = "jobs"
    /\ i \in 1..Len(result.jobs)
    /\ result.jobs[i].pc = "created"
    /\ result' = [ result EXCEPT !.jobs[i].pc = "spawned" ]
    /\ UNCHANGED <<pipeline, given>>

\* main() in worker mode: 'if not args.job_id or not args.job_dir or not
\* args.agent: sys.exit(2)', else run_worker starts and reads prompt.txt.
WorkerMain(i) ==
    /\ result.op = "jobs"
    /\ i \in 1..Len(result.jobs)
    /\ result.jobs[i].pc = "spawned"
    /\ result' = [ result EXCEPT
                     !.jobs[i].pc = IF result.jobs[i].agent = <<>> THEN "exit2" ELSE "working" ]
    /\ UNCHANGED <<pipeline, given>>

\* The try block of run_worker and its except branch: an unsupported agent
\* raises ValueError before any call; report.md and the final event on
\* returncode 0, the error event otherwise.
AgentCall(i, outcome) ==
    /\ result.op = "jobs"
    /\ i \in 1..Len(result.jobs)
    /\ result.jobs[i].pc = "working"
    /\ LET supported == Lower(result.jobs[i].agent) \in AGENTS
           cli       == IF supported THEN outcome ELSE "unsupported"
       IN  result' = [ result EXCEPT
                         !.jobs[i].pc     = "recording",
                         !.jobs[i].cli    = cli,
                         !.jobs[i].report = (cli = "exit0"),
                         !.jobs[i].output = Append(@, IF cli = "exit0" THEN "final" ELSE "error"),
                         !.jobs[i].code   = IF cli = "exit0" THEN 0 ELSE 1 ]
    /\ UNCHANGED <<pipeline, given>>

\* load_json(status_path), status.update(...), then write_json opens
\* status.json for writing, which empties it.
StatusOpen(i) ==
    /\ result.op = "jobs"
    /\ i \in 1..Len(result.jobs)
    /\ result.jobs[i].pc = "recording"
    /\ result' = [ result EXCEPT !.jobs[i].pc = "dumping", !.jobs[i].json = EmptyJson ]
    /\ UNCHANGED <<pipeline, given>>

\* json.dump and close of that write_json; run_worker returns exit_code.
StatusDump(i) ==
    /\ result.op = "jobs"
    /\ i \in 1..Len(result.jobs)
    /\ result.jobs[i].pc = "dumping"
    /\ result' = [ result EXCEPT !.jobs[i].pc = "done",
                                 !.jobs[i].json = FinishedJson(result.jobs[i].code) ]
    /\ UNCHANGED <<pipeline, given>>

\* get_execution_status: sorted(RUNS_DIR.iterdir()) lists the job
\* directories there are now.
QueryBegins ==
    /\ result.op = "jobs"
    /\ result.query.pc \in {"idle", "returned", "raised"}
    /\ result.query.count < MaxQueries
    /\ result' = [ result EXCEPT !.query =
                     [ IdleQuery EXCEPT !.pc = "loading",
                                        !.dirs = Len(result.jobs),
                                        !.count = result.query.count + 1 ] ]
    /\ UNCHANGED <<pipeline, given>>

\* One turn of the loop: a directory without status.json is skipped,
\* json.load of an empty file raises JSONDecodeError, else the record is
\* appended.
QueryLoads ==
    /\ result.op = "jobs"
    /\ result.query.pc = "loading"
    /\ result.query.next <= result.query.dirs
    /\ LET json == result.jobs[result.query.next].json
       IN  result' = [ result EXCEPT
                         !.query.next   = @ + 1,
                         !.query.pc     = IF json.state = "empty" THEN "raised" ELSE @,
                         !.query.loaded = IF json.state = "written"
                                          THEN Append(@, json.status) ELSE @ ]
    /\ UNCHANGED <<pipeline, given>>

\* How many loaded records have the status.
CountStatus(loaded, status) ==
    Cardinality({ k \in 1..Len(loaded) : loaded[k] = status })

\* The summary of get_execution_status.
QueryReturns ==
    /\ result.op = "jobs"
    /\ result.query.pc = "loading"
    /\ result.query.next > result.query.dirs
    /\ result' = [ result EXCEPT
                     !.query.pc = "returned",
                     !.query.summary =
                         [ total     |-> Len(result.query.loaded),
                           running   |-> CountStatus(result.query.loaded, "running"),
                           completed |-> CountStatus(result.query.loaded, "completed"),
                           failed    |-> CountStatus(result.query.loaded, "failed") ] ]
    /\ UNCHANGED <<pipeline, given>>

\* The steps of the detached worker of job i.
WorkerStep(i) ==
    \/ WorkerMain(i)
    \/ \E outcome \in AgentOutcomes : AgentCall(i, outcome)
    \/ StatusOpen(i)
    \/ StatusDump(i)

NextJobs ==
    \/ InitJobMkdir
    \/ \E i \in 1..MaxJobs : InitJobOpen(i)
    \/ \E i \in 1..MaxJobs : InitJobDump(i)
    \/ \E i \in 1..MaxJobs : SpawnWorker(i)
    \/ \E i \in 1..MaxJobs : WorkerStep(i)
    \/ QueryBegins
    \/ QueryLoads
    \/ QueryReturns

SpecJobs == InitJobs /\ [][NextJobs]_vars

\* The same with the executor and every spawned worker process scheduled.
SpecJobsFair ==
    /\ SpecJobs
    /\ \A i \in 1..MaxJobs :
           /\ WF_vars(InitJobOpen(i))
           /\ WF_vars(InitJobDump(i))
           /\ WF_vars(SpawnWorker(i))
           /\ WF_vars(WorkerStep(i))

\* ------------------------------------------------------------ strategy relay
\* strategy_relay.py for one claim: given = --skip-research and the
\* elements.json an earlier session left, result = the run under way.
\* Texts are token sequences: "J1" and "J2" are JSON objects, "ws" white
\* space, "FENCE" a code fence, "x" prose.

\* json.loads(text) succeeds.
RelayLoads(text) == Len(Strip(text)) = 1 /\ Strip(text)[1] \in {"J1", "J2"}

\* json.dump(json.loads(text), f, indent=2): the value alone.
RelayDump(text) == <<Strip(text)[1]>>

\* What the agent CLI prints.
RelayStdouts ==
    { <<"J1">>, <<"ws", "J2", "ws">>, <<"FENCE", "json", "ws", "J1", "ws", "FENCE">>,
      <<"x">>, <<>> }

\* subprocess.run in run_agent: returncode 0, another returncode,
\* TimeoutExpired, FileNotFoundError.
RelayOutcomes == {"exit0", "nonzero", "timeout", "not_found"}

\* run_agent: stdout stripped on returncode 0, "" on an error code or a
\* timeout (FileNotFoundError exits and returns nothing).
RunAgent(outcome, stdout) == IF outcome = "exit0" THEN Strip(stdout) ELSE <<>>

\* elements.json of the claim directory does not exist.
NoElements == <<"<absent>">>

\* phase_research_elements: the parsed value is dumped, anything else is
\* written as it came.
ResearchWrites(elements, response) ==
    IF RelayLoads(response) THEN RelayDump(response) ELSE response

\* phase_match_facts: the parsed value is dumped, else the file is left.
MatchWrites(elements, response) ==
    IF RelayLoads(response) THEN RelayDump(response) ELSE elements

\* main(): research unless --skip-research finds an elements.json.
RelayFirstPhase(skip, elements) ==
    IF skip /\ elements # NoElements THEN "match" ELSE "research"

InitRelay ==
    /\ CaseIdle
    /\ given \in [ op : {"relay"}, skip : BOOLEAN,
                   elements : {NoElements, <<"J1">>, <<"x">>} ]
    /\ result = NoCall

\* main() up to the first phase of the claim.
RelayBegins ==
    /\ given.op = "relay"
    /\ result = NoCall
    /\ result' = [ op       |-> "relay",
                   pc       |-> RelayFirstPhase(given.skip, given.elements),
                   elements |-> given.elements,
                   outcome  |-> "none",
                   response |-> <<>>,
                   runs     |-> 1 ]
    /\ UNCHANGED <<pipeline, given>>

\* A later run of the relay on the same claim directory.
RelayAgain(skip) ==
    /\ result.op = "relay"
    /\ result.pc \in {"done", "exit1"}
    /\ result.runs < MaxRelayRuns
    /\ result' = [ result EXCEPT !.pc = RelayFirstPhase(skip, result.elements),
                                 !.outcome = "none",
                                 !.response = <<>>,
                                 !.runs = @ + 1 ]
    /\ UNCHANGED <<pipeline, given>>

\* phase_research_elements.
PhaseResearch(outcome, stdout) ==
    /\ result.op = "relay"
    /\ result.pc = "research"
    /\ LET response == RunAgent(outcome, stdout)
       IN  result' = [ result EXCEPT
                         !.pc       = IF outcome = "not_found" THEN "exit1" ELSE "match",
                         !.outcome  = outcome,
                         !.response = response,
                         !.elements = IF outcome = "not_found" THEN @
                                      ELSE ResearchWrites(@, response) ]
    /\ UNCHANGED <<pipeline, given>>

\* phase_match_facts.
PhaseMatch(outcome, stdout) ==
    /\ result.op = "relay"
    /\ result.pc = "match"
    /\ LET response == RunAgent(outcome, stdout)
       IN  result' = [ result EXCEPT
                         !.pc       = IF outcome = "not_found" THEN "exit1" ELSE "analyze",
                         !.outcome  = outcome,
                         !.response = response,
                         !.elements = IF outcome = "not_found" THEN @
                                      ELSE MatchWrites(@, response) ]
    /\ UNCHANGED <<pipeline, given>>

\* phase_analyze_viability: reads elements.json, writes analysis.md.
PhaseAnalyze(outcome, stdout) ==
    /\ result.op = "relay"
    /\ result.pc = "analyze"
    /\ result' = [ result EXCEPT
                     !.pc       = IF outcome = "not_found" THEN "exit1" ELSE "gap",
                     !.outcome  = outcome,
                     !.response = RunAgent(outcome, stdout) ]
    /\ UNCHANGED <<pipeline, given>>

\* phase_gap_analysis and the end of main().
PhaseGap(outcome, stdout) ==
    /\ result.op = "relay"
    /\ result.pc = "gap"
    /\ result' = [ result EXCEPT
                     !.pc       = IF outcome = "not_found" THEN "exit1" ELSE "done",
                     !.outcome  = outcome,
                     !.response = RunAgent(outcome, stdout) ]
    /\ UNCHANGED <<pipeline, given>>

NextRelay ==
    \/ RelayBegins
    \/ \E skip \in BOOLEAN : RelayAgain(skip)
    \/ \E outcome \in RelayOutcomes, stdout \in RelayStdouts :
           \/ PhaseResearch(outcome, stdout)
           \/ PhaseMatch(outcome, stdout)
           \/ PhaseAnalyze(outcome, stdout)
           \/ PhaseGap(outcome, stdout)

SpecRelay == InitRelay /\ [][NextRelay]_vars

\* ------------------------------------------------------------------ claims

Phase1Modes == {"default", "all_phases", "phase_extract"}

SynthesizeModes == {"phase_synthesize", "resume_synthesize"}

\* The controller is in, or past, phase_3_synthesize_case_summary.
SynthesisEntered == "PHASE 3" \in runLog /\ pc \in {"phase3", "synth", "ctl3", "done"}

\* C1: no summary worker has started while an extraction worker of the run
\* has not returned, and synthesis is not entered while a summary worker of
\* the run has not returned.
C1_PhaseOrdering ==
    /\ (\E d \in DOMAIN sumTasks : sumTasks[d].st # "queued")
          => \A f \in DOMAIN extTasks : extTasks[f].st = "returned"
    /\ SynthesisEntered
          => \A d \in DOMAIN sumTasks : sumTasks[d].st = "returned"

\* A full run with two extraction workers and two summary workers has
\* reached the synthesis call.
C1_Witness ==
    /\ mode = "all_phases"
    /\ pc = "synth"
    /\ Cardinality(DOMAIN extTasks) = 2
    /\ Cardinality(DOMAIN sumTasks) = 2

\* C2: once a batch phase has returned with no successful item, the run has
\* not entered the next phase and is not logged as phase 3 or all phases
\* complete.
C2_ZeroBatchFails ==
    /\ (mode \in Phase1Modes /\ "phase_1_extract_all" \in returned /\ extracted = {})
          => /\ "PHASE 2" \notin runLog
             /\ "All phases complete" \notin runLog
    /\ ("phase_2_summarize_all" \in returned /\ summarized = {})
          => /\ "PHASE 3" \notin runLog
             /\ "Phase 3 complete" \notin runLog
             /\ "All phases complete" \notin runLog

\* C3: a default run never enters synthesis and, once its summary batch has
\* produced a summary, ends at the annotation checkpoint; an --all-phases
\* run whose summary batch produced a summary enters synthesis.  (Stated for
\* runs without exhibit summaries, the default configuration.)
C3_AnnotationGate ==
    /\ mode = "default" => "PHASE 3" \notin runLog /\ pc \notin {"phase3", "synth", "ctl3"}
    /\ (mode = "default" /\ pc = "done" /\ ~exhibitSummaries
          /\ \E d \in DOMAIN sumTasks : sumTasks[d].ok)
          => "Annotation checkpoint" \in runLog
    /\ (mode = "all_phases" /\ pc = "done" /\ ~exhibitSummaries
          /\ \E d \in DOMAIN sumTasks : sumTasks[d].ok)
          => "PHASE 3" \in runLog

\* The records of the extraction tasks that returned success.
ExtractedOk ==
    { Doc(f.stem, extTasks[f].src, "file_path") : f \in { g \in DOMAIN extTasks : extTasks[g].ok } }

\* The part of C4 about phase_1_extract_all: once it has returned, its result
\* is exactly the records of the tasks that succeeded, successes and
\* failures add up to the batch, and a run that dispatched a batch did not
\* end inside phase 1.
C4_Phase1Result ==
    /\ (pc = "ctl1" /\ "phase_1_extract_all" \in returned)
          => /\ extracted = ExtractedOk
             /\ Cardinality(extracted)
                  + Cardinality({ g \in DOMAIN extTasks : ~extTasks[g].ok })
                  = Cardinality(DOMAIN extTasks)
    /\ (pc = "done" /\ DOMAIN extTasks # {}) => "phase_1_extract_all" \in returned

C5_SummaryFailuresContained ==
    (pc \in {"ctl2", "phase3", "synth", "ctl3", "done"}
       /\ \E d \in DOMAIN sumTasks : ~sumTasks[d].ok)
    => /\ "phase_2_summarize_all" \in returned
       /\ summarized = { SummaryRecord(d) : d \in { e \in DOMAIN sumTasks : sumTasks[e].ok } }
       /\ \A d \in DOMAIN sumTasks : ~sumTasks[d].ok => d.file \in failLog

\* max_retries = 3
SummaryMaxAttempts == 3

\* C6: a document marked failed after a transient failure (rate limit,
\* timeout) of its LLM call has had 3 calls; one marked failed after another
\* error of the call has had 1.
C6_TransientRetried ==
    \A d \in DOMAIN sumTasks :
        (sumTasks[d].st = "returned" /\ ~sumTasks[d].ok)
        => /\ sumTasks[d].cause \in {"rate_limit", "timeout"}
                => sumTasks[d].calls = SummaryMaxAttempts
           /\ sumTasks[d].cause = "error" => sumTasks[d].calls = 1

\* The document_summary.json of the folder exists and parses after cleaning.
ParseableSummary(s) ==
    /\ folders[s].summary # NoSummary
    /\ JsonLoads(CleanFences(folders[s].summary))

\* C7: a document whose LLM call returned without leaving a parseable
\* document_summary.json is reported failed by its worker and is not in the
\* list passed to synthesis.
C7_UnparseableReportedFailed ==
    \A d \in DOMAIN sumTasks :
        (sumTasks[d].st = "returned" /\ sumTasks[d].calls = 1
           /\ sumTasks[d].cause = "none" /\ ~ParseableSummary(d.folder))
        => /\ ~sumTasks[d].ok
           /\ SummaryRecord(d) \notin summarized

\* C8: the documents --phase summarize loads from disk are the documents
\* the earlier extract runs returned as extracted.
C8_SummarizeResumable ==
    (mode = "phase_summarize" /\ pc = "phase2")
    => { d.folder : d \in extracted } = { d.folder : d \in everExtracted }

\* C9: the documents --phase synthesize / --resume-from synthesize load from
\* disk are the documents earlier summarize phases returned as successful
\* (those whose summary file is parseable).
C9_SynthesizeResumable ==
    (mode \in SynthesizeModes /\ pc = "phase3")
    => { d.folder : d \in summarized }
         = { d.folder : d \in { e \in everSummarized : ParseableSummary(e.folder) } }

\* C10: a run logs phase 3 as complete only if its synthesis produced the
\* case summary.
C10_SynthesisFailureRaises ==
    "Phase 3 complete" \in runLog => caseSummary = runs

\* The centralized files holding the text of a source file.
CopiesOf(f) == { n \in DOMAIN central : central[n] = f }

\* C11: every source file phase_1_extract_all has returned as extracted, in
\* this run or an earlier one, has exactly one centralized copy (a
\* centralized file holds one text, so a copy written over by the text of
\* another source leaves its source with none).
C11_OneCentralCopy ==
    \A d \in everExtracted : Cardinality(CopiesOf(d.file)) = 1

\* C12 as stated: within one extraction pool, two distinct tasks never hold
\* the same path from _get_centralized_path, so no task writes over the
\* centralized copy of another task of the batch.
C12_DistinctDestinations ==
    \A f, g \in DOMAIN extTasks :
        (f # g /\ extTasks[f].cpath # NoPath /\ extTasks[g].cpath # NoPath)
            => extTasks[f].cpath # extTasks[g].cpath

\* C12 amended: the path a task obtains from _get_centralized_path is the
\* path of no file the centralized folder holds at the time of the call, so
\* it differs from the path of every task that has written already.
C12_FreshDestination ==
    [][ \A f \in DOMAIN extTasks \cap DOMAIN extTasks' :
            (extTasks[f].st = "routed" /\ extTasks'[f].st = "pathed")
                => extTasks'[f].cpath \notin DOMAIN central ]_vars

\* Two files of one batch with the same sanitized base name have both been
\* written, at distinct centralized paths.
C12_Witness ==
    \E f, g \in DOMAIN extTasks :
        /\ f # g
        /\ SanitizeFilename(f) = SanitizeFilename(g)
        /\ extTasks[f].ok /\ extTasks[g].ok
        /\ extTasks[f].cpath # extTasks[g].cpath
        /\ central[extTasks[f].cpath] = extTasks[f].src
        /\ central[extTasks[g].cpath] = extTasks[g].src

\* C13: two distinct files that workers of one extraction batch are
\* processing at the same time have distinct document folders.
C13_DistinctFolders ==
    \A f, g \in Running(extTasks) : f # g => f.stem # g.stem

\* C14: a file for which the router has returned is no longer in the intake
\* folder.
C14_ConsumedOnce ==
    \A f \in DOMAIN extTasks : extTasks[f].st = "returned" => f \notin intake

\* C15 (SpecCentral): when the first three insertions into the empty
\* centralized folder are of the same original file name, their paths are,
\* in order, <base>.txt, <base>_1.txt and <base>_2.txt.
C15_ThreeInsertions ==
    \A f \in NameUniverse :
        (Len(inserted) >= 3 /\ \A i \in 1..3 : inserted[i].src = f)
            => LET base == SanitizeFilename(f)
               IN  /\ inserted[1].path = base
                   /\ inserted[2].path = base \o <<"_", "1">>
                   /\ inserted[3].path = base \o <<"_", "2">>

\* The file name 'A.csv' has been inserted three times into the empty
\* folder, which now holds three files.
C15_Witness ==
    /\ Len(inserted) = 3
    /\ \A i \in 1..3 : inserted[i].src = File(<<"A">>, "csv")
    /\ Cardinality(DOMAIN central) = 3

\* C16 (SpecCentral): two insertions of original file names with distinct
\* sanitized base names never received the same path.
C16_InjectiveAcrossBases ==
    \A i, j \in 1..Len(inserted) :
        SanitizeFilename(inserted[i].src) # SanitizeFilename(inserted[j].src)
            => inserted[i].path # inserted[j].path

\* A counter path of one base name ('a' inserted twice: a_1.txt) is the
\* first candidate of another base name ('a_1'), inserted after it.
C16_Witness ==
    \E i, j \in 1..Len(inserted) :
        /\ i < j
        /\ SanitizeFilename(inserted[i].src) # SanitizeFilename(inserted[j].src)
        /\ inserted[i].path = SanitizeFilename(inserted[j].src)
        /\ inserted[j].path # inserted[i].path

\* C17: while a pool of either batch phase runs, its number of worker
\* processes is min(10, cpu_count(), number of items of the batch).
C17_PoolSize ==
    /\ pc = "pool1"
          => poolProcs = Min2(10, Min2(cpuCount, Cardinality(DOMAIN extTasks)))
    /\ pc = "pool2"
          => poolProcs = Min2(10, Min2(cpuCount, Cardinality(DOMAIN sumTasks)))

\* A batch phase of the run returned with no successful item.
PhaseFailed ==
    \/ "phase_1_extract_all" \in returned /\ extracted = {}
    \/ "phase_2_summarize_all" \in returned /\ summarized = {}

\* C18: a run ends with exit code 1 when the intake path does not exist or
\* an exception left the controller method, with exit code 0 otherwise, and
\* with exit code 0 only if no phase of the run ended in its failed state.
C18_ExitCodes ==
    pc = "done"
      => LET fatal == "Path does not exist" \in runLog \/ raised # "none"
         IN  /\ fatal => exitCode = 1
             /\ ~fatal => exitCode = 0
             /\ exitCode = 0 => ~PhaseFailed

\* C19: in no mode does a KeyboardInterrupt leave the controller; a run that
\* was interrupted has logged the resume hint.
C19_InterruptCaught ==
    /\ raised # "KeyboardInterrupt"
    /\ (pc = "done" /\ exitCode = 130)
          => "You can resume with: --resume-from [phase]" \in runLog

\* C20: in a run whose setup fails (the intake path does not exist, or
\* MISTRAL_API_KEY is not set while a file of the batch needs it), no
\* extraction worker has been dispatched and no file has left the intake
\* folder.
C20_SetupFailureAbortsEarly ==
    /\ "Path does not exist" \in runLog => (DOMAIN extTasks = {} /\ exitCode = 1)
    /\ (~apiKey /\ \E f \in DOMAIN extTasks : NeedsApiKey(HandlerOf(DetectFileType(f))))
          => \A g \in DOMAIN extTasks : extTasks[g].st = "queued" /\ g \in intake

\* C21: the verification hook takes its sources from the first place, in
\* the order explicit directory, glob, centralized extraction folder, legacy
\* per-document files, that yields a file; and when no place yields a file
\* verify_document is not called.
C21_SourcePriority ==
    (result.op = "verification" /\ given.subject) =>
        LET yield == << IF given.sourcesDir = "present" THEN given.dirFiles ELSE {},
                        IF given.sourcesGlob THEN given.globFiles ELSE {},
                        given.centralFiles,
                        given.legacyFiles >>
        IN  \/ /\ \A i \in 1..4 : yield[i] = {}
               /\ result.sources = {}
               /\ ~result.invoked
            \/ \E i \in 1..4 :
                  /\ yield[i] # {}
                  /\ \A j \in 1..(i - 1) : yield[j] = {}
                  /\ result.sources = yield[i]

\* The legacy files are used although a directory and a glob are configured
\* and the glob matches files when it is not applied: the directory is empty,
\* and so is the centralized folder.
C21_Witness ==
    /\ result.op = "verification"
    /\ given.sourcesDir = "present" /\ given.dirFiles = {}
    /\ given.sourcesGlob /\ given.globFiles = {}
    /\ given.centralFiles = {}
    /\ given.legacyFiles # {}
    /\ result.sources = given.legacyFiles
    /\ result.invoked

RECURSIVE C23_Concatenation(_, _)
\* The text the claim describes for the first n pages: for each page in
\* order its marker line, its text and a blank line.
C23_Concatenation(pages, n) ==
    IF n = 0 THEN <<>>
    ELSE C23_Concatenation(pages, n - 1)
         \o <<"--- Page ">> \o Decimal(n) \o <<" ---", "\n">>
         \o pages[n] \o <<"\n", "\n">>

\* C23: the text built from pages p1..pn is the concatenation, in order, of
\* the line '--- Page i ---', the text of page i and a blank line, with one
\* marker per page, numbered from 1 without a gap.
C23_PageMarkers ==
    result.op = "ocr" =>
        /\ result.text = C23_Concatenation(given.pages, result.i)
        /\ Cardinality({ k \in 1..Len(result.text) : result.text[k] = "--- Page " })
               = result.i

\* A response of three pages, the middle one empty, has been put together.
C23_Witness ==
    /\ result.op = "ocr"
    /\ Len(given.pages) = 3 /\ result.i = 3
    /\ given.pages[2] = <<>>
    /\ result.text = <<"--- Page ", "1", " ---", "\n", "x", "\n", "\n",
                       "--- Page ", "2", " ---", "\n", "\n", "\n",
                       "--- Page ", "3", " ---", "\n", "y", "\n", "\n", "\n">>

\* The texts the claim speaks of: one JSON text, bare or inside one pair of
\* fences (with or without the word json), white space allowed at the joints.
C24_WrappedJson ==
    { pre \o open \o in \o <<"J">> \o out \o close \o post :
        pre \in {<<>>, <<"ws">>}, in \in {<<>>, <<"ws">>},
        out \in {<<>>, <<"ws">>}, post \in {<<>>, <<"ws">>},
        open \in {<<"FENCE", "json">>, <<"FENCE">>}, close \in {<<"FENCE">>} }
    \cup { pre \o <<"J">> \o post : pre \in {<<>>, <<"ws">>}, post \in {<<>>, <<"ws">>} }

C25_SameIgnoringCase(a, b) ==
    /\ Len(a) = Len(b)
    /\ \A i \in 1..Len(a) :
          \/ a[i] = b[i]
          \/ \E k \in 1..Len(LowerLetters) :
                {a[i], b[i]} = {LowerLetters[k], UpperLetters[k]}

\* C25: _detect_file_type returns, for a suffix that is a listed extension
\* in any letter case, the one category that lists it, and 'unsupported'
\* for every other suffix, the empty suffix included.
C25_DetectFileType ==
    result.op = "detect" =>
        LET listing == { t \in DOMAIN SUPPORTED_SUFFIXES :
                           \E e \in SUPPORTED_SUFFIXES[t] :
                               C25_SameIgnoringCase(e, given.suffix) }
        IN  /\ Cardinality(listing) <= 1
            /\ listing = {} => result.type = "unsupported"
            /\ listing # {} => listing = {result.type}

\* '.Markdown', listed in lower case only, has been detected as md.
C25_Witness ==
    /\ result.op = "detect"
    /\ given.suffix = <<".", "M", "a", "r", "k", "d", "o", "w", "n">>
    /\ result.type = "md"

\* The phases whose agent the council has called.
C26_Invoked == { result.invoked[i] : i \in 1..Len(result.invoked) }

\* C26 as stated, last part: the agent of a phase the council has reached
\* was called if and only if the artifact of that phase was absent when the
\* phase was reached.
C26_AgentIffAbsent ==
    result.op = "council" =>
        \A i \in 1..Len(result.reached) :
            result.reached[i] \in C26_Invoked <=> result.reached[i] \in result.absent

\* C26, amended: a run that reaches the end of main() leaves the five
\* artifacts; the phases are reached in the order Archaeology, Schema, API,
\* Fixtures, Plan; an agent is called only for a phase whose artifact was
\* absent, once, and then always, but for the archaeology, whose agent is
\* called only if existing code was found as well.
C26_RelayOfArtifacts ==
    result.op = "council" =>
        /\ result.pc = "adjourned" =>
              /\ CouncilArtifacts \subseteq result.artifacts
              /\ result.reached = CouncilPhases
        /\ result.reached = SubSeq(CouncilPhases, 1, Len(result.reached))
        /\ \A i, j \in 1..Len(result.invoked) :
              result.invoked[i] = result.invoked[j] => i = j
        /\ \A i \in 1..Len(result.reached) :
              LET phase == result.reached[i]
              IN  phase \in C26_Invoked <=>
                     /\ phase \in result.absent
                     /\ phase = "Archaeology" => given.existingCode

\* The council adjourned on a greenfield project: the infrastructure
\* analysis was absent and was written without a call of the agent, the
\* schema was there and was skipped, the plan was absent and its agent called.
C26_Witness ==
    /\ result.op = "council"
    /\ result.pc = "adjourned"
    /\ ~given.existingCode
    /\ "Archaeology" \in result.absent /\ "Archaeology" \notin C26_Invoked
    /\ "Schema" \notin result.absent /\ "Schema" \notin C26_Invoked
    /\ "Plan" \in result.absent /\ "Plan" \in C26_Invoked
    /\ CouncilArtifacts \subseteq result.artifacts

\* C27: a run of the executor without --ticket spawns no job for a ticket
\* that has, when the run starts, a job with status completed or running.
C27_PendingOnly ==
    [][ ( /\ result.op = "executor" /\ result'.op = "executor"
          /\ result'.runs = result.runs + 1
          /\ result'.mode = "execute" /\ ~result'.arg.set )
        => \A k \in 1..Len(result'.spawned) :
              ~ \E i \in 1..Len(result.jobs) :
                    /\ result.jobs[i].ticket = result'.spawned[k]
                    /\ result.jobs[i].status \in {"completed", "running"} ]_vars

\* C28: a run with --ticket N has spawned jobs for the tickets of the plan
\* whose id is N and for no other ticket, whatever the integer N.
C28_ExactlyTicketN ==
    (result.op = "executor" /\ result.mode = "execute" /\ result.arg.set) =>
        /\ \A k \in 1..Len(result.spawned) : result.spawned[k] = result.arg.n
        /\ Len(result.spawned) =
               Cardinality({ i \in 1..Len(given.plan) : given.plan[i] = result.arg.n })

\* C29: the retry loop of _generate_summary_sync (no Gemini interface)
\* makes at most 3 calls; it calls again only after a rate limit or a
\* timeout, and the k-th failed attempt is followed by a wait of 2k seconds
\* before the next call; every other failure, and a failure of the third
\* attempt, raises; and the function returns only with document_summary.json
\* in place.
C29_RetryWithBackoff ==
    (result.op = "summary_sync" /\ ~given.interface) =>
        /\ Len(result.calls) <= 3
        /\ \A k \in 1..(Len(result.calls) - 1) :
              /\ result.calls[k] \in {"rate_limit", "429", "timeout"}
              /\ result.slept[k] = 2 * k
        /\ (result.status = "raised" /\ result.calls # <<>>) =>
              LET last == result.calls[Len(result.calls)]
              IN  \/ last = "error"
                  \/ last = "not_written" /\ ~result.output
                  \/ last \in {"rate_limit", "429", "timeout"} /\ Len(result.calls) = 3
        /\ result.status = "returned" => result.output

\* C30: a run whose synthesis logged success holds a case summary written
\* by the call of that run, not one an earlier run left.
C30_CurrentRunCreated ==
    "Case Summary synthesized" \in runLog => caseSummary = runs

\* The files of documents/<stem> that carry the file name of f.
C31_Targets(f) ==
    IF f.stem \in DOMAIN folders
    THEN { g \in folders[f.stem].files : g.stem = f.stem /\ g.ext = f.ext }
    ELSE {}

\* C31: when the router finds its move target documents/<stem>/<filename>
\* in place, it leaves that file and the document folder as they are,
\* leaves the intake folder as it is, and hands the file found there to
\* the handler.
C31_ExistingTargetKept ==
    [][ \A f \in DOMAIN extTasks \cap DOMAIN extTasks' :
          ( /\ extTasks[f].st = "queued" /\ extTasks'[f].st # "queued"
            /\ C31_Targets(f) # {} )
          => /\ folders' = folders
             /\ intake' = intake
             /\ extTasks'[f].st = "routed"
             /\ extTasks'[f].src \in C31_Targets(f) ]_vars

\* A file dropped under the name of a file extracted before has been
\* routed: it is still in the intake folder and the handler has extracted
\* the file that was in the document folder.
C31_Witness ==
    \E f \in DOMAIN extTasks :
        /\ f.gen > 0
        /\ f \in intake
        /\ extTasks[f].st = "returned" /\ extTasks[f].ok
        /\ extTasks[f].src # f
        /\ extTasks[f].src \in folders[f.stem].files
        /\ f \notin folders[f.stem].files
        /\ extTasks[f].cpath \in DOMAIN central
        /\ central[extTasks[f].cpath] = extTasks[f].src

\* The characters of [a-z0-9_-].
C32_Allowed ==
    { LowerLetters[i] : i \in 1..Len(LowerLetters) }
    \cup { DigitChars[i] : i \in 1..Len(DigitChars) } \cup {"_", "-"}

\* C32: the name _sanitize_filename returns holds characters of [a-z0-9_-]
\* only, no two underscores in a row and at most 200 characters; the same
\* name comes back for the same input, and the name returned is sanitized to
\* itself.
C32_SanitizedName ==
    result.op = "sanitize" =>
        /\ \A k \in 1..Len(result.names) :
              LET name == result.names[k]
              IN  /\ \A i \in 1..Len(name) : name[i] \in C32_Allowed
                  /\ \A i \in 1..(Len(name) - 1) : ~(name[i] = "_" /\ name[i + 1] = "_")
                  /\ Len(name) <= 200
        /\ result.names[1] = SanitizeName(given.name)
        /\ Len(result.names) = 2 => result.names[2] = result.names[1]

\* A name of 402 characters, every other one unsafe, with an extension, has
\* been cut to 200 characters and sanitized a second time.
C32_Witness ==
    /\ result.op = "sanitize"
    /\ Len(given.name) = 404
    /\ given.name[1] = "!" /\ given.name[2] = "B"
    /\ Len(result.names) = 2
    /\ Len(result.names[1]) = 200
    /\ result.names[1][1] = "_" /\ result.names[1][2] = "b"
    /\ result.names[2] = result.names[1]

\* C33: in a run that has ended, with auto-verification enabled and timing
\* immediate or post_phase a successful synthesis has been followed by one
\* call of the verification hook, whatever the entry point; with timing off
\* the hook has not been called; and no call was made without a case summary.
C33_VerifiedOnce ==
    (result.op = "synthesis_run" /\ result.pc = "done") =>
        /\ (given.verify /\ given.timing # "off" /\ result.synthesized)
              => Len(result.hooks) = 1
        /\ given.timing = "off" => result.hooks = <<>>
        /\ \A i \in 1..Len(result.hooks) : result.hooks[i].subject

\* C34: a discovered file whose extraction has returned (and that nobody
\* else deleted) has a centralized copy of its text or is still in the
\* intake folder.
C34_NotStranded ==
    \A f \in DOMAIN extTasks :
        ( /\ extTasks[f].st = "returned"
          /\ \/ f \in intake
             \/ f.stem \in DOMAIN folders /\ f \in folders[f.stem].files )
        => (CopiesOf(f) # {} \/ f \in intake)

\* C35: status.json of an executor job is 'running' until the worker
\* records, then 'completed' or 'failed' for good; 'completed' exactly
\* when the agent returned 0 and report.md was saved (exit_code 0),
\* 'failed' otherwise (exit_code 1 and an error message); output.jsonl is
\* then the start event and one final or error event.
C35_Terminal(job) == job.json.state = "written" /\ job.json.status \in {"completed", "failed"}

C35_Records ==
    result.op = "jobs" =>
        \A i \in 1..Len(result.jobs) :
            LET job == result.jobs[i]
            IN  job.json.state = "written" =>
                    /\ job.json.status \in {"running", "completed", "failed"}
                    /\ job.json.status = "running" <=> job.pc # "done"
                    /\ job.json.status = "completed" <=> (job.pc = "done" /\ job.cli = "exit0" /\ job.report)
                    /\ job.json.status = "completed" =>
                           job.json.exit_code = 0 /\ job.output = <<"start", "final">>
                    /\ job.json.status = "failed" =>
                           /\ job.json.exit_code = 1
                           /\ job.json.error
                           /\ job.output = <<"start", "error">>

C35_Final ==
    result.op = "jobs" =>
        \A i \in 1..Len(result.jobs) :
            C35_Terminal(result.jobs[i]) =>
                /\ result'.jobs[i].json = result.jobs[i].json
                /\ result'.jobs[i].output = result.jobs[i].output
                /\ result'.jobs[i].report = result.jobs[i].report

C35_StatusLifecycle == []C35_Records /\ [][C35_Final]_vars

C35_Witness ==
    /\ result.op = "jobs"
    /\ Len(result.jobs) = 2
    /\ result.jobs[1].json.state = "written" /\ result.jobs[1].json.status = "completed"
    /\ result.jobs[2].json.state = "written" /\ result.jobs[2].json.status = "failed"
    /\ result.jobs[2].cli = "timeout"

\* C36: every job init_job has created leaves status 'running' once the
\* worker process is scheduled.
C36_LeavesRunning ==
    \A i \in 1..MaxJobs :
        (result.op = "jobs" /\ i <= Len(result.jobs) /\ result.jobs[i].pc = "created")
            ~> (result.op = "jobs" /\ i <= Len(result.jobs) /\ C35_Terminal(result.jobs[i]))

\* C37: a status query never meets an empty status.json; what it loads has
\* status running, completed or failed and its summary adds up.
C37_QueryConsistent ==
    result.op = "jobs" =>
        /\ result.query.pc # "raised"
        /\ \A k \in 1..Len(result.query.loaded) :
               result.query.loaded[k] \in {"running", "completed", "failed"}
        /\ result.query.pc = "returned" =>
               result.query.summary.total =
                   result.query.summary.running + result.query.summary.completed
                       + result.query.summary.failed

\* C38: a council run whose agent call failed in a phase has stopped with
\* exit 1; the artifact of that phase is absent, no later artifact was
\* written, the artifacts that were there are still there and those of the
\* earlier phases exist, so that the next run skips the earlier phases and
\* calls the agent of the failed phase; the failing step itself writes
\* nothing and nothing follows it.
C38_Failed == result.op = "council" /\ result.pc = "exit1" /\ result.reached # <<>>

C38_AfterFailure ==
    C38_Failed =>
        LET k == Len(result.reached)
            failed == result.reached[k]
        IN  /\ failed = CouncilPhases[k]
            /\ ArtifactOf(failed) \notin result.artifacts
            /\ given.artifacts \subseteq result.artifacts
            /\ \A i \in 1..Len(CouncilPhases) :
                   /\ i < k => ArtifactOf(CouncilPhases[i]) \in result.artifacts
                   /\ i > k => (ArtifactOf(CouncilPhases[i]) \in result.artifacts
                                   <=> ArtifactOf(CouncilPhases[i]) \in given.artifacts)
            /\ CallsAgent(failed, result.artifacts, given.existingCode)
            /\ \A i \in 1..(k - 1) :
                   ~CallsAgent(CouncilPhases[i], result.artifacts, given.existingCode)

C38_FailingStep ==
    /\ (result.op = "council" /\ result.pc # "exit1" /\ result'.pc = "exit1")
           => result'.artifacts = result.artifacts
    /\ C38_Failed => result' = result

C38_StopsAtFailedPhase == []C38_AfterFailure /\ [][C38_FailingStep]_vars

C38_Witness ==
    /\ C38_Failed
    /\ result.reached = <<"Archaeology", "Schema", "API">>
    /\ given.artifacts = {"SCHEMA", "PLAN"}
    /\ result.artifacts = {"INFRA", "SCHEMA", "PLAN"}

\* C39: a research or fact-matching phase whose agent call failed, or
\* whose response is not valid JSON, leaves a valid elements.json as it
\* was.
C39_ElementsKept ==
    [][ ( /\ result.op = "relay"
          /\ result.pc \in {"research", "match"}
          /\ result'.pc # result.pc
          /\ RelayLoads(result.elements)
          /\ (result'.outcome # "exit0" \/ ~RelayLoads(result'.response)) )
        => result'.elements = result.elements ]_vars

====
